---------------------------- MODULE Spec2Model ----------------------------
(***************************************************************************)
(* Model of the Whisper-Transcribe browser extension: the text sanitizer   *)
(* (cleanWhisperOutput), the windowed transcriber of the popup, and the    *)
(* capture controller (toggleRecording / stopRecording / the MediaRecorder *)
(* 'stop' handler / processRecording / processLongRecording) of the popup  *)
(* and of the side panel.                                                  *)
(*                                                                         *)
(* Text is modelled as a sequence of one-character strings, so that the    *)
(* regular-expression passes of the sanitizer act on characters.           *)
(***************************************************************************)
EXTENDS Integers, Sequences, FiniteSets, TLC

VARIABLES
    \* ---- sanitizer harness -------------------------------------------
    cleanIn,        \* the raw text handed to cleanWhisperOutput
    cleanOut,       \* cleanWhisperOutput(cleanIn)
    cleanOut2,      \* cleanWhisperOutput(cleanOut)
    cleanStage,     \* 0: input drawn, 1: cleaned once, 2: cleaned twice
    cleanImpl       \* "shared" (whisper-utils.js) or "local" (popup bundle)

cleanVars == <<cleanIn, cleanOut, cleanOut2, cleanStage, cleanImpl>>

VARIABLES
    \* ---- the page (DOM) ---------------------------------------------
    transcriptionValue, \* transcriptionEl.value
    statusText          \* statusEl.textContent

domVars == <<transcriptionValue, statusText>>

VARIABLES
    \* ---- one call of the popup's Whisper transcriber -----------------
    trLen,              \* audioData.length, in samples at 16 kHz
    trOpts,             \* the options argument: [chunk_length_s, stride_length_s]
    trPc,               \* "called" | "loop" | "single" | "done"
    trI,                \* the loop index i
    fullTranscription,  \* the text assembled so far
    lastWords,          \* the Set lastWords, in insertion order
    trResult,           \* [kind |-> "none" | "text" | "throw", text |-> ...]
    trLog               \* per processed window: [startSample, endSample, outcome, cleaned]

trVars == <<trLen, trOpts, trPc, trI, fullTranscription, lastWords, trResult, trLog>>

VARIABLES
    \* ---- the capture controller of a page ---------------------------
    page,               \* the page script: "part000", "popup" or "sidepanel"
    transcriber,        \* "null", or the kind of the loaded transcriber
    recording,          \* the recording flag
    mediaRecorder,      \* 0 for null, else the index of the current MediaRecorder
    recorders,          \* every MediaRecorder created so far, with its closure's timers
    handlers,           \* per MediaRecorder, the run of its 'stop' listener
    audioChunks,        \* audioChunks.length
    pendingGUM,         \* toggleRecording calls waiting for getUserMedia
    elapsed,            \* (Date.now() - recordingStartTime) / 1000 when last read or set
    recordingTimer,     \* TRUE while the updateTimer interval is set
    recordBtnDisabled,  \* recordBtn.disabled
    saved               \* the saveTranscription messages sent

ctlVars == <<page, transcriber, recording, mediaRecorder, recorders, handlers,
             audioChunks, pendingGUM, elapsed, recordingTimer, recordBtnDisabled, saved>>

VARIABLES
    \* ---- the model selection of a page ------------------------------
    selectedModel,      \* the global selectedModel
    modelSelect,        \* modelSelect.value, the option the user picked
    engineModel,        \* the model the engine behind transcriber was loaded from
    loads,              \* the runs of initializeModel that have not settled
    rebound,            \* the popup has bound its second click and change listeners
    overlapped          \* the last change event left two or more loads in flight

mdlVars == <<selectedModel, modelSelect, engineModel, loads, rebound, overlapped>>

VARIABLES
    \* ---- the manual chunk loop of processLongRecording ----------------
    lrSampleRate,       \* audioBuffer.sampleRate of the decoded recording
    lrTotalSamples,     \* totalSamples = audioData.length
    lrPc,               \* "idle", "loop" or "done"
    lrI,                \* the loop index i
    lrLog               \* the chunks handed to audioBufferToBlob and the transcriber

lrVars == <<lrSampleRate, lrTotalSamples, lrPc, lrI, lrLog>>

VARIABLES
    \* ---- processAudioBlob ---------------------------------------------
    audioBuffer,        \* the decoded AudioBuffer: sampleRate and the channels' data
    finalAudioData,     \* the samples returned to the transcriber
    paPc                \* "idle", "decoded" or "done"

paVars == <<audioBuffer, finalAudioData, paPc>>

(***************************************************************************)
(* Characters.                                                             *)
(***************************************************************************)
LowerLetters ==
    {"a","b","c","d","e","f","g","h","i","j","k","l","m",
     "n","o","p","q","r","s","t","u","v","w","x","y","z"}

UpperLetters ==
    {"A","B","C","D","E","F","G","H","I","J","K","L","M",
     "N","O","P","Q","R","S","T","U","V","W","X","Y","Z"}

Digits == {"0","1","2","3","4","5","6","7","8","9"}

\* \w of a JavaScript regular expression
IsWordChar(c) == c \in LowerLetters \cup UpperLetters \cup Digits \cup {"_"}

\* \s of a JavaScript regular expression (the members a text can hold here)
IsSpaceChar(c) == c \in {" ", "\t", "\n", "\r", "\f"}

\* the class [.,;:!?]
IsPunctChar(c) == c \in {".", ",", ";", ":", "!", "?"}

\* the i flag: the letters of "music" in either case
LowerOf(c) ==
    CASE c = "M" -> "m"
      [] c = "U" -> "u"
      [] c = "S" -> "s"
      [] c = "I" -> "i"
      [] c = "C" -> "c"
      [] OTHER   -> c

\* the value null / undefined of a text argument
NullText == <<"null">>

Tok_startoftranscript ==
    <<"<", "|", "s", "t", "a", "r", "t", "o", "f", "t", "r", "a", "n", "s", "c", "r", "i", "p", "t", "|", ">">>
Tok_endoftranscript ==
    <<"<", "|", "e", "n", "d", "o", "f", "t", "r", "a", "n", "s", "c", "r", "i", "p", "t", "|", ">">>
Tok_endoftext ==
    <<"<", "|", "e", "n", "d", "o", "f", "t", "e", "x", "t", "|", ">">>
Tok_notimestamps ==
    <<"<", "|", "n", "o", "t", "i", "m", "e", "s", "t", "a", "m", "p", "s", "|", ">">>
Tok_transcribe ==
    <<"<", "|", "t", "r", "a", "n", "s", "c", "r", "i", "b", "e", "|", ">">>
Tok_translate ==
    <<"<", "|", "t", "r", "a", "n", "s", "l", "a", "t", "e", "|", ">">>
Tag_START == <<"[", "S", "T", "A", "R", "T", "]">>
Tag_END == <<"[", "E", "N", "D", "]">>
Tag_BLANK_AUDIO ==
    <<"[", "B", "L", "A", "N", "K", "_", "A", "U", "D", "I", "O", "]">>
Word_music == <<"m", "u", "s", "i", "c">>

(***************************************************************************)
(* The passes of cleanWhisperOutput, one operator per .replace call.       *)
(***************************************************************************)
DropFirst(s, n) == SubSeq(s, n + 1, Len(s))

StartsWith(s, pat) == Len(s) >= Len(pat) /\ SubSeq(s, 1, Len(pat)) = pat

\* s.replace(/pat/g, '') for a literal pat: leftmost matches, not overlapping
RECURSIVE RemoveAll(_, _)
RemoveAll(s, pat) ==
    IF Len(s) < Len(pat) THEN s
    ELSE IF StartsWith(s, pat) THEN RemoveAll(DropFirst(s, Len(pat)), pat)
    ELSE <<s[1]>> \o RemoveAll(Tail(s), pat)

\* the length of the longest prefix of s whose characters satisfy the class
RECURSIVE WordRun(_)
WordRun(s) == IF s # <<>> /\ IsWordChar(s[1]) THEN 1 + WordRun(Tail(s)) ELSE 0

RECURSIVE SpaceRun(_)
SpaceRun(s) == IF s # <<>> /\ IsSpaceChar(s[1]) THEN 1 + SpaceRun(Tail(s)) ELSE 0

RECURSIVE PunctRun(_)
PunctRun(s) == IF s # <<>> /\ IsPunctChar(s[1]) THEN 1 + PunctRun(Tail(s)) ELSE 0

\* the length of the match of /\[\w+\]/ at the start of s, 0 when none
BracketTagLen(s) ==
    IF s # <<>> /\ s[1] = "["
    THEN LET n == WordRun(Tail(s))
         IN  IF n >= 1 /\ Len(s) >= n + 2 /\ s[n + 2] = "]" THEN n + 2 ELSE 0
    ELSE 0

\* s.replace(/\[\w+\]/g, '')
RECURSIVE RemoveBracketTags(_)
RemoveBracketTags(s) ==
    IF s = <<>> THEN s
    ELSE LET n == BracketTagLen(s)
         IN  IF n > 0 THEN RemoveBracketTags(DropFirst(s, n))
             ELSE <<s[1]>> \o RemoveBracketTags(Tail(s))

\* the length of the match of /\[\s*music\s*\]\s*/i at the start of s, 0 when none
MusicTagLen(s) ==
    IF s # <<>> /\ s[1] = "["
    THEN LET a  == 1 + SpaceRun(Tail(s))
             r1 == DropFirst(s, a)
         IN  IF Len(r1) >= 5 /\ [k \in 1..5 |-> LowerOf(r1[k])] = Word_music
             THEN LET b  == a + 5 + SpaceRun(DropFirst(r1, 5))
                      r2 == DropFirst(s, b)
                  IN  IF r2 # <<>> /\ r2[1] = "]"
                      THEN b + 1 + SpaceRun(Tail(r2))
                      ELSE 0
             ELSE 0
    ELSE 0

\* s.replace(/^\s*\[\s*music\s*\]\s*/i, '')
RemoveLeadingMusic(s) ==
    LET a == SpaceRun(s)
        n == MusicTagLen(DropFirst(s, a))
    IN  IF n > 0 THEN DropFirst(s, a + n) ELSE s

\* s.replace(/\[\s*music\s*\]\s*$/i, ''): the leftmost match that reaches the end
RemoveTrailingMusic(s) ==
    LET starts == {i \in 1..Len(s) :
                     LET n == MusicTagLen(DropFirst(s, i - 1))
                     IN  n > 0 /\ i - 1 + n = Len(s)}
    IN  IF starts = {} THEN s
        ELSE LET i == CHOOSE x \in starts : \A y \in starts : x <= y
             IN  SubSeq(s, 1, i - 1)

\* s.replace(/\s+/g, ' ')
RECURSIVE CollapseWhitespace(_)
CollapseWhitespace(s) ==
    IF s = <<>> THEN s
    ELSE LET n == SpaceRun(s)
         IN  IF n > 0 THEN <<" ">> \o CollapseWhitespace(DropFirst(s, n))
             ELSE <<s[1]>> \o CollapseWhitespace(Tail(s))

\* s.replace(/^\s*\.\s*$/, '')
RemoveLonePeriod(s) ==
    LET a == SpaceRun(s)
        r == DropFirst(s, a)
    IN  IF r # <<>> /\ r[1] = "." /\ SpaceRun(Tail(r)) = Len(r) - 1
        THEN <<>> ELSE s

\* s.replace(/^[.,;:!?]+/, '')
RemoveLeadingPunct(s) == DropFirst(s, PunctRun(s))

\* the length of the longest suffix of s made of punctuation
RECURSIVE PunctRunBack(_)
PunctRunBack(s) ==
    IF s # <<>> /\ IsPunctChar(s[Len(s)])
    THEN 1 + PunctRunBack(SubSeq(s, 1, Len(s) - 1)) ELSE 0

\* s.replace(/[.,;:!?]+$/, '')
RemoveTrailingPunct(s) == SubSeq(s, 1, Len(s) - PunctRunBack(s))

RECURSIVE SpaceRunBack(_)
SpaceRunBack(s) ==
    IF s # <<>> /\ IsSpaceChar(s[Len(s)])
    THEN 1 + SpaceRunBack(SubSeq(s, 1, Len(s) - 1)) ELSE 0

\* s.trim()
Trim(s) ==
    LET a == SpaceRun(s)
        r == DropFirst(s, a)
    IN  SubSeq(r, 1, Len(r) - SpaceRunBack(r))

\* the six control-token passes, in the order of the source
RemoveControlTokens(s) ==
    RemoveAll(RemoveAll(RemoveAll(RemoveAll(RemoveAll(RemoveAll(s,
        Tok_startoftranscript), Tok_endoftranscript), Tok_endoftext),
        Tok_notimestamps), Tok_transcribe), Tok_translate)

\* the tail shared by both copies: whitespace, lone period, punctuation, trim
NormalizeTail(s) ==
    Trim(RemoveTrailingPunct(RemoveLeadingPunct(RemoveLonePeriod(
        CollapseWhitespace(s)))))

\* cleanWhisperOutput of shared/whisper-utils.js
\* the passes of cleanWhisperOutput applied without the test of !text
cleanWithoutGuard(text) ==
    NormalizeTail(
      RemoveTrailingMusic(RemoveLeadingMusic(
        RemoveAll(
          RemoveBracketTags(
            RemoveAll(RemoveAll(RemoveControlTokens(text), Tag_START), Tag_END)),
          Tag_BLANK_AUDIO))))

cleanWhisperOutput(text) ==
    IF text = NullText \/ text = <<>> THEN <<>>
    ELSE NormalizeTail(
           RemoveTrailingMusic(RemoveLeadingMusic(
             RemoveAll(
               RemoveBracketTags(
                 RemoveAll(RemoveAll(RemoveControlTokens(text), Tag_START), Tag_END)),
               Tag_BLANK_AUDIO))))

\* cleanWhisperOutput of the popup bundle (no music / blank-audio passes)
cleanWhisperOutputLocal(text) ==
    IF text = NullText \/ text = <<>> THEN <<>>
    ELSE NormalizeTail(
           RemoveBracketTags(
             RemoveAll(RemoveAll(RemoveControlTokens(text), Tag_START), Tag_END)))

CleanBy(impl, text) ==
    IF impl = "shared" THEN cleanWhisperOutput(text) ELSE cleanWhisperOutputLocal(text)

(***************************************************************************)
(* Sanitizer harness: the input is a concatenation of at most MaxPieces    *)
(* pieces; the pieces hold every character class the passes distinguish,   *)
(* whole control tokens and the halves that removing a token can join.     *)
(***************************************************************************)
MaxPieces == 3

Pieces ==
    { <<"a">>, <<" ">>, <<"\n">>, <<".">>, <<",">>, <<"[">>, <<"]">>,
      Tok_endoftext,
      <<"<", "|", "e", "n", "d", "o", "f">>,
      <<"t", "e", "x", "t", "|", ">">>,
      <<"M", "u", "s", "i", "c">>,
      <<"<", "|", "0", ".", "0", "0", "|", ">">> }

RECURSIVE PieceStrings(_)
PieceStrings(n) ==
    IF n = 0 THEN {<<>>}
    ELSE LET shorter == PieceStrings(n - 1)
         IN  shorter \cup {s \o p : s \in shorter, p \in Pieces}

CleanInputs == PieceStrings(MaxPieces) \cup {NullText}

InitClean ==
    /\ cleanIn \in CleanInputs
    /\ cleanImpl \in {"shared", "local"}
    /\ cleanOut = <<>>
    /\ cleanOut2 = <<>>
    /\ cleanStage = 0

\* a caller applies cleanWhisperOutput to a raw text
CleanOnce ==
    /\ cleanStage = 0
    /\ cleanOut' = CleanBy(cleanImpl, cleanIn)
    /\ cleanStage' = 1
    /\ UNCHANGED <<cleanIn, cleanOut2, cleanImpl, domVars, trVars, ctlVars, mdlVars, lrVars, paVars>>

\* a caller applies it again to an already cleaned text
\* (processRecording cleans the text the transcriber already cleaned)
CleanTwice ==
    /\ cleanStage = 1
    /\ cleanOut2' = CleanBy(cleanImpl, cleanOut)
    /\ cleanStage' = 2
    /\ UNCHANGED <<cleanIn, cleanOut, cleanImpl, domVars, trVars, ctlVars, mdlVars, lrVars, paVars>>

(***************************************************************************)
(* The Whisper transcriber of the popup (loadWhisperModel): one call.      *)
(***************************************************************************)
SampleRate == 16000

\* ceil(a / b) for b > 0 (Math.ceil of a JavaScript quotient)
CeilDiv(a, b) == -((-a) \div b)

Min(a, b) == IF a < b THEN a ELSE b

Max(a, b) == IF a > b THEN a ELSE b

\* no options argument, or a field left undefined
NoOption == 0

\* chunkOptions: options.chunk_length_s || 20, options.stride_length_s || 5
ChunkLengthS(opts) == IF opts.chunk_length_s = NoOption THEN 20 ELSE opts.chunk_length_s

StrideLengthS(opts) == IF opts.stride_length_s = NoOption THEN 5 ELSE opts.stride_length_s

\* a duration test that sends a buffer of exactly 25 s to the windowed loop
IsLongAudioInclusive(len) == len >= 25 * SampleRate

\* estimatedDuration > 25 with estimatedDuration = audioData.length / 16000
IsLongAudio(len) == len > 25 * SampleRate

\* estimatedDuration > 120
IsVeryLongAudio(len) == len > 120 * SampleRate

\* the window length without the override for very long audio
adjustedChunkSizeFromOptions(len, opts) == ChunkLengthS(opts) * SampleRate

adjustedChunkSize(len, opts) ==
    IF IsVeryLongAudio(len) THEN 25 * SampleRate ELSE ChunkLengthS(opts) * SampleRate

adjustedStrideSize(len, opts) ==
    IF IsVeryLongAudio(len) THEN 3 * SampleRate ELSE StrideLengthS(opts) * SampleRate

\* the window count with the quotient rounded down
numChunksRoundedDown(len, opts) ==
    ((len - adjustedChunkSize(len, opts))
        \div (adjustedChunkSize(len, opts) - adjustedStrideSize(len, opts))) + 1

numChunks(len, opts) ==
    CeilDiv(len - adjustedChunkSize(len, opts),
            adjustedChunkSize(len, opts) - adjustedStrideSize(len, opts)) + 1

startSample(i, len, opts) ==
    i * (adjustedChunkSize(len, opts) - adjustedStrideSize(len, opts))

\* the end of a window that is not clipped at the end of the buffer
endSampleUnclipped(i, len, opts) ==
    startSample(i, len, opts) + adjustedChunkSize(len, opts)

endSample(i, len, opts) ==
    Min(startSample(i, len, opts) + adjustedChunkSize(len, opts), len)

\* text.split(/\s+/): the pieces between runs of whitespace
RECURSIVE SplitWords(_, _)
SplitWords(s, cur) ==
    IF s = <<>> THEN <<cur>>
    ELSE LET n == SpaceRun(s)
         IN  IF n > 0 THEN <<cur>> \o SplitWords(DropFirst(s, n), <<>>)
             ELSE SplitWords(Tail(s), Append(cur, s[1]))

\* words.join(' ')
RECURSIVE JoinWords(_)
JoinWords(words) ==
    IF words = <<>> THEN <<>>
    ELSE IF Len(words) = 1 THEN words[1]
    ELSE words[1] \o <<" ">> \o JoinWords(Tail(words))

\* [...lastWords].filter(w => w === word).length
repetitionCount(lw, word) == Cardinality({k \in DOMAIN lw : lw[k] = word})

MaxRepetitions == 3

LastWordsCap == 20

\* lastWords.add(word) without the deletion that keeps the set at 20 entries
LastWordsAddUncapped(lw, word) ==
    IF \E k \in DOMAIN lw : lw[k] = word THEN lw ELSE Append(lw, word)

\* lastWords.add(word): a Set keeps one entry per value, in insertion order;
\* then, over 20 entries, lastWords.delete([...lastWords][0])
LastWordsAdd(lw, word) ==
    LET added == IF \E k \in DOMAIN lw : lw[k] = word THEN lw ELSE Append(lw, word)
    IN  IF Len(added) > LastWordsCap THEN Tail(added) ELSE added

\* a loop that pushes every word twice
FilterWordsTwice(words, lw, unique) == [unique |-> words \o words, last |-> lw]

\* the loop over the words of one window: [unique |-> uniqueWords, last |-> lastWords]
RECURSIVE FilterWords(_, _, _)
FilterWords(words, lw, unique) ==
    IF words = <<>> THEN [unique |-> unique, last |-> lw]
    ELSE IF repetitionCount(lw, Head(words)) < MaxRepetitions
         THEN FilterWords(Tail(words), LastWordsAdd(lw, Head(words)),
                          Append(unique, Head(words)))
         ELSE FilterWords(Tail(words), lw, unique)

EndsWithSpace(s) == s # <<>> /\ s[Len(s)] = " "

\* a separator added before every window, the first one included
AppendChunkAfterSpace(full, deduped) == full \o <<" ">> \o deduped

\* fullTranscription += (fullTranscription && !endsWith(' ') ? ' ' : '') + dedupedChunk
AppendChunk(full, deduped) ==
    full \o (IF full # <<>> /\ ~EndsWithSpace(full) THEN <<" ">> ELSE <<>>) \o deduped

ProgressMarker ==
    <<" ", "[", "t", "r", "a", "n", "s", "c", "r", "i", "b", "i", "n", "g", ".", ".", ".", "]">>

EmptyTranscription ==
    <<"[", "E", "m", "p", "t", "y", " ", "t", "r", "a", "n", "s", "c", "r", "i", "p", "t", "i", "o", "n", "]">>

\* the text returned as it is, empty or not
KeepText(text) == text

\* text || '[Empty transcription]'
OrEmptyTranscription(text) == IF text = <<>> THEN EmptyTranscription ELSE text

\* what the tokenizer decodes for one window: the texts the engine can return
Raw_FortyNine3 ==
    <<"f", "o", "r", "t", "y", " ", "n", "i", "n", "e", " ", "f", "o", "r", "t", "y", " ", "n", "i", "n", "e", " ", "f", "o", "r", "t", "y", " ", "n", "i", "n", "e">>
\* decoded text as the tokenizer returns it: a leading space, a doubled space
\* and a line end
Raw_FortyNineTest ==
    <<" ", "f", "o", "r", "t", "y", " ", " ", "n", "i", "n", "e", " ", "t", "e", "s", "t", "\n">>

\* one word more often than MaxRepetitions
Raw_Forty4 ==
    <<"f", "o", "r", "t", "y", " ", "f", "o", "r", "t", "y", " ", "f", "o", "r", "t", "y", " ", "f", "o", "r", "t", "y">>

RawTexts == {Raw_FortyNine3, Raw_FortyNineTest, Raw_Forty4, Tok_endoftext}

\* the outcome of processor(...) + model.generate(...) + decode for one window
EngineOutcomes ==
    {[kind |-> "text", text |-> r] : r \in RawTexts} \cup {[kind |-> "throw", text |-> <<>>]}

\* buffer lengths in samples: both sides of the 25 s and 120 s tiers
TrLengths ==
    {10 * SampleRate, 25 * SampleRate, 25 * SampleRate + 1, 35 * SampleRate,
     36 * SampleRate, 120 * SampleRate, 120 * SampleRate + 1, 150 * SampleRate}

\* the options the callers pass: none (transcriber(audioBlob)) and
\* processLongRecording's {chunk_length_s: 30, stride_length_s: 10}
TrOptions ==
    {[chunk_length_s |-> NoOption, stride_length_s |-> NoOption],
     [chunk_length_s |-> 30, stride_length_s |-> 10]}

NoResult == [kind |-> "none", text |-> <<>>]

InitTranscriber ==
    /\ trLen \in TrLengths
    /\ trOpts \in TrOptions
    /\ trPc = "called"
    /\ trI = 0
    /\ fullTranscription = <<>>
    /\ lastWords = <<>>
    /\ trResult = NoResult
    /\ trLog = <<>>

\* processAudioBlob, then the branch on the estimated duration
TrBegin ==
    /\ trPc = "called"
    /\ \/ \* decodeAudioData rejects: caught, logged and rethrown
          /\ trPc' = "done"
          /\ trResult' = [kind |-> "throw", text |-> <<>>]
          /\ UNCHANGED statusText
       \/ /\ IsLongAudio(trLen)
          /\ trPc' = "loop"
          /\ statusText' = "Transcribing long audio"
          /\ UNCHANGED trResult
       \/ /\ ~IsLongAudio(trLen)
          /\ trPc' = "single"
          /\ UNCHANGED <<statusText, trResult>>
    /\ UNCHANGED <<trLen, trOpts, trI, fullTranscription, lastWords, trLog,
                   transcriptionValue, cleanVars, ctlVars, mdlVars, lrVars, paVars>>

\* one iteration of the loop over the windows
TrChunk ==
    /\ trPc = "loop"
    /\ trI < numChunks(trLen, trOpts)
    /\ \E out \in EngineOutcomes :
         LET s == startSample(trI, trLen, trOpts)
             e == endSample(trI, trLen, trOpts)
         IN
         IF out.kind = "throw"
         THEN \* no try around the iteration: the outer catch rethrows
              /\ trPc' = "done"
              /\ trResult' = [kind |-> "throw", text |-> <<>>]
              /\ trLog' = Append(trLog, [startSample |-> s, endSample |-> e,
                                         outcome |-> "throw", cleaned |-> <<>>])
              /\ statusText' = "Transcribing chunk"
              /\ UNCHANGED <<trI, fullTranscription, lastWords, transcriptionValue>>
         ELSE LET cleanedChunk == cleanWhisperOutputLocal(out.text)
                  f == FilterWords(SplitWords(cleanedChunk, <<>>), lastWords, <<>>)
              IN
              /\ trLog' = Append(trLog, [startSample |-> s, endSample |-> e,
                                         outcome |-> "text", cleaned |-> cleanedChunk])
              /\ statusText' = "Transcribing chunk"
              /\ trI' = trI + 1
              /\ IF cleanedChunk # <<>>
                 THEN /\ lastWords' = f.last
                      /\ IF f.unique # <<>>
                         THEN /\ fullTranscription' =
                                   AppendChunk(fullTranscription, JoinWords(f.unique))
                              /\ transcriptionValue' =
                                   fullTranscription' \o ProgressMarker
                         ELSE UNCHANGED <<fullTranscription, transcriptionValue>>
                 ELSE UNCHANGED <<lastWords, fullTranscription, transcriptionValue>>
              /\ UNCHANGED <<trPc, trResult>>
    /\ UNCHANGED <<trLen, trOpts, cleanVars, ctlVars, mdlVars, lrVars, paVars>>

\* after the last window: return { text: fullTranscription || '[Empty transcription]' }
TrLoopEnd ==
    /\ trPc = "loop"
    /\ trI >= numChunks(trLen, trOpts)
    /\ trPc' = "done"
    /\ trResult' = [kind |-> "text", text |-> OrEmptyTranscription(fullTranscription)]
    /\ UNCHANGED <<trLen, trOpts, trI, fullTranscription, lastWords, trLog, domVars,
                   cleanVars, ctlVars, mdlVars, lrVars, paVars>>

\* the standard approach for audio of at most 25 s: one processor + generate call
TrSingle ==
    /\ trPc = "single"
    /\ \E out \in EngineOutcomes :
         /\ trLog' = Append(trLog, [startSample |-> 0, endSample |-> trLen,
                                    outcome |-> out.kind,
                                    cleaned |-> IF out.kind = "text"
                                                THEN cleanWhisperOutputLocal(out.text)
                                                ELSE <<>>])
         /\ trResult' =
              IF out.kind = "throw" THEN [kind |-> "throw", text |-> <<>>]
              ELSE [kind |-> "text",
                    text |-> OrEmptyTranscription(cleanWhisperOutputLocal(out.text))]
    /\ trPc' = "done"
    /\ UNCHANGED <<trLen, trOpts, trI, fullTranscription, lastWords, domVars, cleanVars,
                   ctlVars, mdlVars, lrVars, paVars>>

(***************************************************************************)
(* The capture controller: toggleRecording, stopRecording, the             *)
(* MediaRecorder listeners, processRecording and processLongRecording of   *)
(* the popup (src/unnamed/part_000 and src/popup/popup.js) and of the      *)
(* side panel (src/sidepanel/sidepanel.js).                                *)
(***************************************************************************)
MaxRecorders == 2       \* MediaRecorder objects created in one behaviour
MaxChunks == 1          \* audioChunks.length is counted up to this
MaxManualChunks == 2    \* chunks of the manual loop of processLongRecording

Pages == {"part000", "popup", "sidepanel"}

\* the click listeners of the record button that call toggleRecording: the
\* popup registers one at load and one more after the model is initialised
ClickListeners(p) == IF p = "sidepanel" THEN 1 ELSE 2

\* the transcriber initializeModel can install: the Whisper function of the
\* page (its own in part_000, the shared one elsewhere) or a pipeline
TranscribersOf(p) == IF p = "part000" THEN {"local", "pipeline"} ELSE {"shared", "pipeline"}

\* the cleanWhisperOutput the page calls: its own in part_000, the shared one elsewhere
PageCleaner == IF page = "part000" THEN "local" ELSE "shared"

\* representatives of the elapsed seconds on each side of the thresholds
ElapsedValues == {0, 12, 20, 30}

\* what (Date.now() - recordingStartTime) / 1000 can be when it is read next:
\* no less than the value it had when it was read last
ClockReadings == {e \in ElapsedValues : e >= elapsed}

LongBlobSeconds == 10       \* estimatedDuration > 10 in the stop listener
LongBlobBytes == 50000      \* audioBlob.size > 50000 in the stop listener
RedirectSeconds == 25       \* estimatedDuration > 25 in processRecording
DirectSeconds == 15         \* estimatedDuration < 15 in processLongRecording
BlobSizes == {20000, 60000}

Speech == <<"h", "i">>
OldText == <<"o", "l", "d">>
EngineMessage == <<"e", "n", "g", "i", "n", "e", " ", "f", "a", "i", "l", "u", "r", "e">>
NoSpeechDetected ==
    <<"[", "N", "o", " ", "s", "p", "e", "e", "c", "h", " ", "d", "e", "t", "e", "c", "t", "e", "d", "]">>
TranscriptionErrorPrefix ==
    <<"[", "T", "r", "a", "n", "s", "c", "r", "i", "p", "t", "i", "o", "n", " ", "e", "r", "r", "o", "r", ":", " ">>
ErrorProcessingAudioPrefix ==
    <<"[", "E", "r", "r", "o", "r", " ", "p", "r", "o", "c", "e", "s", "s", "i", "n", "g", " ", "a", "u", "d", "i", "o", ":", " ">>
ErrorProcessingRecordingPrefix ==
    <<"[", "E", "r", "r", "o", "r", " ", "p", "r", "o", "c", "e", "s", "s", "i", "n", "g", " ", "r", "e", "c", "o", "r", "d", "i", "n", "g", ":", " ">>
ProcessingErrorPrefix ==
    <<"[", "P", "r", "o", "c", "e", "s", "s", "i", "n", "g", " ", "e", "r", "r", "o", "r", ":", " ">>
EmptyTranscriptionResult ==
    <<"[", "E", "m", "p", "t", "y", " ", "t", "r", "a", "n", "s", "c", "r", "i", "p", "t", "i", "o", "n", " ", "r", "e", "s", "u", "l", "t", "]">>
Msg_NoAudio ==
    <<"N", "o", " ", "a", "u", "d", "i", "o", " ", "d", "a", "t", "a", " ", "c", "a", "p", "t", "u", "r", "e", "d">>
Msg_NotInitialized ==
    <<"T", "r", "a", "n", "s", "c", "r", "i", "b", "e", "r", " ", "i", "s", " ", "n", "o", "t", " ", "p", "r", "o", "p", "e", "r", "l", "y", " ", "i", "n", "i", "t", "i", "a", "l", "i", "z", "e", "d">>
Msg_NotAFunction ==
    <<"T", "r", "a", "n", "s", "c", "r", "i", "b", "e", "r", " ", "i", "s", " ", "n", "o", "t", " ", "a", " ", "f", "u", "n", "c", "t", "i", "o", "n", ".", " ", "M", "o", "d", "e", "l", " ", "m", "a", "y", " ", "n", "o", "t", " ", "b", "e", " ", "p", "r", "o", "p", "e", "r", "l", "y", " ", "l", "o", "a", "d", "e", "d", ".">>

\* `[<prefix>${error.message}]`
Annotation(prefix, message) == prefix \o message \o <<"]">>

\* transcriptionEl.value += (transcriptionEl.value ? '\n' : '') + text
AppendLine(value, text) == value \o (IF value # <<>> THEN <<"\n">> ELSE <<>>) \o text

\* the side panel: value += (value.endsWith('.') ? ' ' : '. ') + text, or value = text
AppendSentence(value, text) ==
    IF value = <<>> THEN text
    ELSE value \o (IF value[Len(value)] = "." THEN <<" ">> ELSE <<".", " ">>) \o text

\* what the engine decodes for one call of the page: speech, the tag Whisper
\* gives for silence, or nothing
ControllerRawTexts == {Speech, Tag_BLANK_AUDIO, <<>>}

\* One call transcriber(blob[, options]) as the page sees it.  kind/text: what
\* the call returns or that it throws; ok: the engine produced the result;
\* wrote/shown: the text the transcriber itself assigned to transcriptionEl.value.
\*  - "local" (part_000): cleans inside, substitutes '[Empty transcription]',
\*    rethrows every error, and for audio over 25 s writes its progress
\*  - "shared" (whisper-utils.js): never throws, returns the error as the text
\*  - "pipeline": the library pipeline, returns { text } or throws
Outcomes(kind, canBeLong) ==
    LET thrown == [kind |-> "throw", text |-> <<>>, ok |-> FALSE, wrote |-> FALSE, shown |-> <<>>]
        plain(t, ok) == [kind |-> "text", text |-> t, ok |-> ok, wrote |-> FALSE, shown |-> <<>>]
    IN
    CASE kind = "local" ->
           {thrown}
           \cup {plain(OrEmptyTranscription(cleanWhisperOutputLocal(r)), TRUE) :
                    r \in ControllerRawTexts}
           \cup (IF canBeLong
                 THEN {[kind |-> "text", text |-> OrEmptyTranscription(Speech), ok |-> TRUE,
                        wrote |-> TRUE, shown |-> Speech \o ProgressMarker],
                       [kind |-> "throw", text |-> <<>>, ok |-> FALSE,
                        wrote |-> TRUE, shown |-> Speech \o ProgressMarker]}
                 ELSE {})
      [] kind = "shared" ->
           {plain(IF r = <<>> THEN EmptyTranscriptionResult ELSE r, TRUE) :
                    r \in ControllerRawTexts}
           \cup {plain(Annotation(ProcessingErrorPrefix, EngineMessage), FALSE)}
      [] OTHER ->
           {thrown} \cup {plain(r, TRUE) : r \in ControllerRawTexts}

\* the outcomes of every kind of transcriber, computed once
CallOutcomes ==
    [kind \in {"local", "shared", "pipeline"} |->
        [canBeLong \in BOOLEAN |-> Outcomes(kind, canBeLong)]]

TranscriberCall(kind, canBeLong) == CallOutcomes[kind][canBeLong]

\* every text a transcriber call can return
ResultTexts ==
    UNION {{o.text : o \in CallOutcomes[kind][TRUE]} : kind \in DOMAIN CallOutcomes}

\* cleanWhisperOutput of each page applied to each of these texts, computed once
CleanedResults ==
    [impl \in {"local", "shared"} |-> [text \in ResultTexts |-> CleanBy(impl, text)]]

\* a MediaRecorder after start(): the popup's 'start' listener, the first task
\* of the recorder, has set the two timers of the toggleRecording call
NewRecorder(withStartListener) ==
    [state |-> "recording", stopQueued |-> FALSE,
     chunkTimer |-> withStartListener,
     maxTimer |-> IF withStartListener THEN "armed" ELSE "unset",
     tracksLive |-> TRUE]

\* the run of a 'stop' listener: pc is the await it is suspended at, ctx the
\* caller of processLongRecording, i/n/fullTranscription the manual chunk loop;
\* strategies, someOk, okTexts, valueBefore, kept and traced record what
\* happened: okTexts is the join of the cleaned texts of the chunks whose
\* inference succeeded
NoHandler ==
    [pc |-> "idle", ctx |-> "none", i |-> 0, n |-> 0, fullTranscription |-> <<>>,
     strategies |-> <<>>, someOk |-> FALSE, okTexts |-> <<>>, valueBefore |-> <<>>,
     error |-> <<>>, long |-> FALSE, kept |-> TRUE, traced |-> FALSE, outcome |-> "none"]

\* the globals and DOM fields that toggleRecording and stopRecording touch
Globals ==
    [recording |-> recording, mediaRecorder |-> mediaRecorder, recorders |-> recorders,
     audioChunks |-> audioChunks, pendingGUM |-> pendingGUM, statusText |-> statusText,
     recordingTimer |-> recordingTimer, recordBtnDisabled |-> recordBtnDisabled,
     saved |-> saved, transcriptionValue |-> transcriptionValue, elapsed |-> elapsed]

SetGlobals(g) ==
    /\ recording' = g.recording
    /\ mediaRecorder' = g.mediaRecorder
    /\ recorders' = g.recorders
    /\ audioChunks' = g.audioChunks
    /\ pendingGUM' = g.pendingGUM
    /\ statusText' = g.statusText
    /\ recordingTimer' = g.recordingTimer
    /\ recordBtnDisabled' = g.recordBtnDisabled
    /\ saved' = g.saved
    /\ transcriptionValue' = g.transcriptionValue
    /\ elapsed' = g.elapsed

\* saveTranscriptionToHistory: the message { text, model } is sent unless the
\* trimmed text is empty; capture is the recorder it is sent for and transcribed
\* tells whether that capture's transcription had finished when it was sent
saveTranscriptionToHistory(g, transcribed) ==
    LET text == Trim(g.transcriptionValue)
    IN  IF text = <<>> THEN g
        ELSE [g EXCEPT !.saved = Append(@, [text |-> text, model |-> selectedModel,
                                            capture |-> g.mediaRecorder,
                                            transcribed |-> transcribed])]

\* MediaRecorder.stop(): the state is inactive at once, the dataavailable and
\* stop events are queued
RecorderStop(g, stopTracks) ==
    [g EXCEPT !.recorders[g.mediaRecorder] =
                  [@ EXCEPT !.state = "inactive", !.stopQueued = TRUE,
                            !.tracksLive = IF stopTracks THEN FALSE ELSE @]]

RecorderActive(g) ==
    g.mediaRecorder # 0 /\ g.recorders[g.mediaRecorder].state # "inactive"

\* stopRecording of the popup; popup.js ends it with saveTranscriptionToHistory()
stopRecording(g) ==
    IF ~g.recording THEN g
    ELSE LET after ==
                 IF RecorderActive(g)
                 THEN RecorderStop(g, TRUE)
                 ELSE [g EXCEPT !.recording = FALSE, !.recordingTimer = FALSE,
                                !.statusText = "Ready"]
         IN  IF page = "popup"
             THEN saveTranscriptionToHistory(after,
                      g.mediaRecorder # 0 /\ handlers[g.mediaRecorder].pc = "done")
             ELSE after

\* toggleRecording of the popup without its test of transcriber
toggleRecordingUnchecked(g) ==
    IF ~g.recording
    THEN [g EXCEPT !.audioChunks = 0, !.pendingGUM = @ + 1]
    ELSE stopRecording(g)

\* toggleRecording up to its first await
toggleRecording(g) ==
    IF page = "sidepanel"
    THEN IF ~g.recording
         THEN [g EXCEPT !.recording = TRUE,
                        !.transcriptionValue = IF Trim(@) = <<>> THEN <<>> ELSE @,
                        !.elapsed = 0,
                        !.recordingTimer = TRUE,
                        !.statusText = "Recording...",
                        !.pendingGUM = @ + 1]
         ELSE IF RecorderActive(g)
              THEN [RecorderStop(g, FALSE) EXCEPT !.statusText = "Processing...",
                                                 !.recordBtnDisabled = TRUE]
              ELSE g
    ELSE IF ~g.recording
         THEN IF transcriber = "null"
              THEN [g EXCEPT !.statusText = "Model not loaded"]
              ELSE [g EXCEPT !.audioChunks = 0, !.pendingGUM = @ + 1]
         ELSE stopRecording(g)

RECURSIVE Clicked(_, _)
\* the click event runs its listeners one after the other
Clicked(g, listeners) ==
    IF listeners = 0 THEN g ELSE Clicked(toggleRecording(g), listeners - 1)


InitController ==
    /\ page \in Pages
    /\ transcriber \in TranscribersOf(page)
    /\ recording = FALSE
    /\ mediaRecorder = 0
    /\ recorders = <<>>
    /\ handlers = <<>>
    /\ audioChunks = 0
    /\ pendingGUM = 0
    /\ elapsed = 30             \* recordingStartTime = 0: Date.now() is far ahead of it
    /\ recordingTimer = FALSE
    /\ recordBtnDisabled = FALSE
    /\ saved = <<>>
    /\ transcriptionValue = <<>>
    /\ statusText = "Ready"

Recorders == DOMAIN recorders

HandlerActive(h) == h.pc \notin {"idle", "done"}

\* the listeners bound to the record button and to the model select: the popup
\* binds its second ones when its first load has succeeded
Listeners == IF rebound THEN ClickListeners(page) ELSE 1

\* the user clicks the record button: every listener runs toggleRecording
Click ==
    /\ ~recordBtnDisabled
    /\ LET g == Clicked(Globals, Listeners)
       IN  /\ g # Globals
           /\ Len(recorders) + g.pendingGUM <= MaxRecorders
           /\ SetGlobals(g)
    /\ UNCHANGED <<page, transcriber, handlers, cleanVars, trVars, mdlVars, lrVars, paVars>>

\* the user types into the transcript area before the first capture
UserTypes ==
    /\ transcriptionValue = <<>>
    /\ recorders = <<>>
    /\ pendingGUM = 0
    /\ ~recording
    /\ transcriptionValue' = OldText
    /\ UNCHANGED <<statusText, ctlVars, cleanVars, trVars, mdlVars, lrVars, paVars>>

\* getUserMedia resolves: the rest of the try block of toggleRecording, and the
\* 'start' event that MediaRecorder.start() queues
GumResolve ==
    /\ pendingGUM > 0
    /\ pendingGUM' = pendingGUM - 1
    /\ recorders' = Append(recorders, NewRecorder(page # "sidepanel"))
    /\ handlers' = Append(handlers, NoHandler)
    /\ mediaRecorder' = Len(recorders) + 1
    /\ IF page = "sidepanel"
       THEN /\ audioChunks' = 0
            /\ UNCHANGED <<recording, statusText, elapsed, recordingTimer>>
       ELSE /\ recording' = TRUE
            /\ statusText' = "Recording..."
            /\ elapsed' = 0
            /\ recordingTimer' = TRUE
            /\ UNCHANGED audioChunks
    /\ UNCHANGED <<page, transcriber, recordBtnDisabled, saved, transcriptionValue,
                   cleanVars, trVars, mdlVars, lrVars, paVars>>

\* getUserMedia rejects
GumReject ==
    /\ pendingGUM > 0
    /\ pendingGUM' = pendingGUM - 1
    /\ IF page = "sidepanel"
       THEN /\ statusText' = "Error: <getUserMedia message>"
            /\ recording' = FALSE
       ELSE /\ statusText' = "Microphone access denied"
            /\ UNCHANGED recording
    /\ UNCHANGED <<page, transcriber, mediaRecorder, recorders, handlers, audioChunks,
                   elapsed, recordingTimer, recordBtnDisabled, saved, transcriptionValue,
                   cleanVars, trVars, mdlVars, lrVars, paVars>>

\* a 'dataavailable' event of a running recorder with data in it
DataAvailable(r) ==
    /\ recorders[r].state = "recording"
    /\ audioChunks < MaxChunks
    /\ audioChunks' = audioChunks + 1
    /\ UNCHANGED <<page, transcriber, recording, mediaRecorder, recorders, handlers,
                   pendingGUM, elapsed, recordingTimer, recordBtnDisabled, saved,
                   domVars, cleanVars, trVars, mdlVars, lrVars, paVars>>

\* the 10 minute timer of recorder r fires while a capture is running (at any
\* other time its callback does nothing)
MaxTimerFires(r) ==
    /\ recorders[r].maxTimer = "armed"
    /\ recording /\ mediaRecorder # 0 /\ recorders[mediaRecorder].state = "recording"
    /\ SetGlobals(stopRecording(
          [Globals EXCEPT !.recorders[r] = [@ EXCEPT !.maxTimer = "fired"],
                          !.elapsed = IF mediaRecorder = r THEN 30 ELSE @,
                          !.statusText = "Maximum recording time reached (10 minutes)"]))
    /\ UNCHANGED <<page, transcriber, handlers, cleanVars, trVars, mdlVars, lrVars, paVars>>

(***************************************************************************)
(* The 'stop' listener of the popup with processRecording and              *)
(* processLongRecording.  A step record s holds the handler h and the two  *)
(* DOM fields the handler writes.                                          *)
(***************************************************************************)
Step(h) == [h |-> h, value |-> transcriptionValue, status |-> statusText]

\* the value after the progress writes of the transcriber itself
AfterCall(s, o) == IF o.wrote THEN [s EXCEPT !.value = o.shown] ELSE s

\* bookkeeping of a settled inference call: someOk, whether any call of this
\* handler gave a result of the engine
Logged(s, ok) == [s EXCEPT !.h.someOk = @ \/ ok]

\* s1 \o " " \o s2, without the space when either is empty
JoinSpace(s1, s2) == s1 \o (IF s1 # <<>> /\ s2 # <<>> THEN <<" ">> ELSE <<>>) \o s2

\* the text the page takes from a result: cleanWhisperOutput(result.text), or
\* nothing for a thrown call or a result without text
Taken(o) ==
    IF o.kind = "text" /\ o.text # <<>> THEN CleanedResults[PageCleaner][o.text] ELSE <<>>

\* s begins with p
IsPrefix(p, s) == Len(p) <= Len(s) /\ SubSeq(s, 1, Len(p)) = p

\* s holds p as a substring
Contains(s, p) == \E k \in 1..(Len(s) - Len(p) + 1) : SubSeq(s, k, k + Len(p) - 1) = p

\* the transcript holds one of the error annotations of the pages or the error
\* text of the shared transcriber
TranscriptShowsError(value) ==
    \E prefix \in {TranscriptionErrorPrefix, ErrorProcessingAudioPrefix,
                    ErrorProcessingRecordingPrefix, ProcessingErrorPrefix} :
        Contains(value, prefix)

\* the status line reports an error
StatusShowsError(status) ==
    status \in {"Error transcribing audio", "Error: Transcriber not available",
                "Error: No transcription result", "Error: <engine message>"}

\* the listener has returned leaving value in the transcript and status in the
\* status line: its locals are gone; on record stay the outcome, whether any
\* inference call gave a result, whether the transcript still begins with what
\* it held before, and whether transcript or status show an error
Finished(h, outcome, value, status) ==
    [NoHandler EXCEPT !.pc = "done", !.outcome = outcome, !.someOk = h.someOk,
                      !.kept = IsPrefix(h.valueBefore, value),
                      !.traced = TranscriptShowsError(value) \/ StatusShowsError(status)]

\* the try block of the stop listener completed
HandlerSuccess(s) ==
    [s EXCEPT !.h = Finished(@, "complete", s.value, "Transcription complete"),
              !.status = "Transcription complete"]

\* the catch block of the stop listener
HandlerCatch(s, message) ==
    LET value == AppendLine(s.value, Annotation(TranscriptionErrorPrefix, message))
    IN  [s EXCEPT !.h = Finished(@, "error", value, "Error transcribing audio"),
                  !.status = "Error transcribing audio",
                  !.value = value]

\* the catch block of processRecording up to its first await
PRCatch(s, message) == [s EXCEPT !.h.pc = "PR_fallback", !.h.error = message]

\* processLongRecording returned: each of its callers returns to the stop listener
LRReturn(s) == HandlerSuccess(s)

\* the outer catch of processLongRecording annotates and rethrows to its caller
LRThrow(s, message) ==
    LET s1 == [s EXCEPT !.value =
                  AppendLine(@, Annotation(ErrorProcessingRecordingPrefix, message))]
    IN  CASE s.h.ctx = "handler"  -> HandlerCatch(s1, message)
          [] s.h.ctx = "redirect" -> PRCatch(s1, message)
          [] OTHER                -> HandlerCatch(s1, s.h.error)   \* throw error

\* processLongRecording up to its first await; now is its reading of the clock
LREnter(s, ctx, now) ==
    LET s0 == [s EXCEPT !.h.ctx = ctx, !.h.strategies = Append(@, "long")]
    IN  IF transcriber = "null" THEN LRThrow(s0, Msg_NotInitialized)
        ELSE IF now < DirectSeconds
             THEN [s0 EXCEPT !.h.pc = "LR_direct"]
             ELSE [s0 EXCEPT !.h.pc = "LR_meta"]

\* the handler of recorder r and the DOM take the values of step record s
Commit(r, s) ==
    /\ handlers' = [handlers EXCEPT ![r] = s.h]
    /\ transcriptionValue' = s.value
    /\ statusText' = s.status

\* what the final 'dataavailable' leaves in audioChunks
WithLastChunk(last) == IF last /\ audioChunks < MaxChunks THEN audioChunks + 1 ELSE audioChunks

\* the task queued by MediaRecorder.stop() in the popup: the last
\* 'dataavailable', then the 'stop' listener up to its first await
StopTask(r) ==
    /\ page # "sidepanel"
    /\ recorders[r].stopQueued
    /\ \E last \in BOOLEAN, size \in BlobSizes, now \in ClockReadings,
          long \in IF transcriber = "local" THEN BOOLEAN ELSE {FALSE} :
         LET chunks == WithLastChunk(last)
             s0 == [Step([NoHandler EXCEPT !.valueBefore = transcriptionValue,
                                           !.long = long])
                       EXCEPT !.status = "Transcribing..."]
         IN  /\ long => now > RedirectSeconds     \* audio of more than 25 s took as long
             /\ audioChunks' = chunks
             /\ elapsed' = now
             /\ Commit(r, IF chunks = 0 THEN HandlerCatch(s0, Msg_NoAudio)
                          ELSE IF now > LongBlobSeconds /\ size > LongBlobBytes
                               THEN LREnter(s0, "handler", now)
                               ELSE [s0 EXCEPT !.h.pc = "PR_arrayBuffer"])
    /\ recorders' = [recorders EXCEPT ![r] =
                        [@ EXCEPT !.stopQueued = FALSE, !.chunkTimer = FALSE,
                                  !.maxTimer = IF @ = "armed" THEN "cleared" ELSE @]]
    /\ recording' = FALSE
    /\ recordingTimer' = FALSE
    /\ UNCHANGED <<page, transcriber, mediaRecorder, pendingGUM,
                   recordBtnDisabled, saved, cleanVars, trVars, mdlVars, lrVars, paVars>>

\* what no step of processRecording and processLongRecording changes
HandlerFrame ==
    UNCHANGED <<page, transcriber, recording, mediaRecorder, recorders, audioChunks,
                pendingGUM, recordingTimer, recordBtnDisabled, saved, cleanVars, trVars, mdlVars, lrVars, paVars>>

\* processRecording after `await audioBlob.arrayBuffer()`
PRArrayBuffer(r) ==
    /\ handlers[r].pc = "PR_arrayBuffer"
    /\ \E now \in ClockReadings :
         LET s == Step(handlers[r])
         IN  /\ elapsed' = now
             /\ Commit(r, IF transcriber = "null" THEN PRCatch(s, Msg_NotAFunction)
                          ELSE IF now > RedirectSeconds THEN LREnter(s, "redirect", now)
                          ELSE [s EXCEPT !.h.pc = "PR_main",
                                         !.h.strategies = Append(@, "direct")])
    /\ HandlerFrame

\* processRecording after `await transcriber(audioBlob)`
PRMain(r) ==
    /\ handlers[r].pc = "PR_main"
    /\ \E o \in TranscriberCall(transcriber, FALSE) :
         LET s == Logged(AfterCall(Step(handlers[r]), o), o.ok)
         IN  Commit(r, IF o.kind = "throw" THEN PRCatch(s, EngineMessage)
                       ELSE HandlerSuccess(
                              [s EXCEPT !.value =
                                  AppendLine(@, IF Taken(o) # <<>> THEN Taken(o)
                                                ELSE NoSpeechDetected)]))
    /\ UNCHANGED elapsed
    /\ HandlerFrame

\* the catch block of processRecording after `await import(...)`: building the
\* options of the temporary pipeline reads estimatedDuration, a const of the try
\* block, so a ReferenceError is thrown before pipeline() is called and the
\* inner catch calls processLongRecording
PRFallback(r) ==
    /\ handlers[r].pc = "PR_fallback"
    /\ \E now \in ClockReadings :
         /\ elapsed' = now
         /\ Commit(r, LREnter(Step(handlers[r]), "lastResort", now))
    /\ HandlerFrame

\* the result of a whole-capture call in processLongRecording: a non-empty
\* cleaned text replaces the transcript and the function returns
LRWhole(s, o, nextPc) ==
    LET s1 == Logged(AfterCall(s, o), o.ok)
    IN  IF Taken(o) # <<>>
        THEN LRReturn([s1 EXCEPT !.value = Taken(o)])
        ELSE [s1 EXCEPT !.h.pc = nextPc]

\* processLongRecording after `await transcriber(audioBlob)` of the direct approach
LRDirect(r) ==
    /\ handlers[r].pc = "LR_direct"
    /\ \E o \in TranscriberCall(transcriber, FALSE) :
         Commit(r, LRWhole(Step(handlers[r]), o, "LR_meta"))
    /\ UNCHANGED elapsed
    /\ HandlerFrame

\* audioElement.load(): the 'loadedmetadata' event resolves the awaited promise;
\* the 'error' event of an element that cannot read the blob has no listener,
\* and the promise stays pending
LRMeta(r) ==
    /\ handlers[r].pc = "LR_meta"
    /\ \/ Commit(r, [Step(handlers[r]) EXCEPT !.h.pc = "LR_full"])
       \/ Commit(r, [Step(handlers[r]) EXCEPT !.h.pc = "LR_pending"])
    /\ UNCHANGED elapsed
    /\ HandlerFrame

\* processLongRecording after `await transcriber(audioBlob, transcriptionOptions)`
LRFull(r) ==
    /\ handlers[r].pc = "LR_full"
    /\ \E o \in TranscriberCall(transcriber, handlers[r].long) :
         Commit(r, LRWhole(Step(handlers[r]), o, "LR_decode"))
    /\ UNCHANGED elapsed
    /\ HandlerFrame

\* the catch (audioError) of processLongRecording: annotate and return
LRAudioError(s) ==
    LRReturn([s EXCEPT !.value =
                 AppendLine(@, Annotation(ErrorProcessingAudioPrefix, EngineMessage))])

\* fetch + decodeAudioData, then numChunks = ceil(totalSamples / samplesPerChunk)
LRDecode(r) ==
    /\ handlers[r].pc = "LR_decode"
    /\ \/ Commit(r, LRAudioError(Step(handlers[r])))
       \/ \E n \in 1..MaxManualChunks :
            Commit(r, [Step(handlers[r]) EXCEPT !.h.pc = "LR_chunk", !.h.n = n, !.h.i = 0,
                                                !.h.strategies = Append(@, "chunks")])
    /\ UNCHANGED elapsed
    /\ HandlerFrame

\* after the loop: the joined text replaces the transcript, or the marker is appended
LRLoopEnd(s) ==
    LRReturn([s EXCEPT !.value = IF s.h.fullTranscription # <<>>
                                 THEN s.h.fullTranscription
                                 ELSE AppendLine(@, NoSpeechDetected)])

\* one iteration of the manual chunk loop: createBuffer and audioBufferToBlob
\* (outside the inner try), then `await transcriber(chunkBlob)` inside it
LRChunk(r) ==
    /\ handlers[r].pc = "LR_chunk"
    /\ \/ Commit(r, LRAudioError(Step(handlers[r])))
       \/ \E o \in TranscriberCall(transcriber, TRUE) :
            LET s0 == [Step(handlers[r]) EXCEPT !.status = "Transcribing part i/n..."]
                s1 == [Logged(AfterCall(s0, o), o.ok) EXCEPT
                          !.h.okTexts = IF o.ok THEN JoinSpace(@, Taken(o)) ELSE @]
                full == JoinSpace(s1.h.fullTranscription, Taken(o))
                s2 == IF Taken(o) # <<>>
                      THEN [s1 EXCEPT !.h.fullTranscription = full,
                                      !.value = full \o ProgressMarker]
                      ELSE s1
                s3 == [s2 EXCEPT !.h.i = @ + 1]
            IN  Commit(r, IF s3.h.i = s3.h.n THEN LRLoopEnd(s3) ELSE s3)
    /\ UNCHANGED elapsed
    /\ HandlerFrame

(***************************************************************************)
(* The side panel: onstop and its processRecording.                        *)
(***************************************************************************)
\* the end of onstop, after processRecording has settled
SPCleanup(r) ==
    /\ recordingTimer' = FALSE
    /\ recording' = FALSE
    /\ recorders' = [recorders EXCEPT ![r] =
                        [@ EXCEPT !.stopQueued = FALSE, !.tracksLive = FALSE]]

\* the task queued by MediaRecorder.stop() in the side panel: the last
\* 'dataavailable', then onstop; without a transcriber processRecording fails
\* at once and onstop runs to its end
SPStopTask(r) ==
    /\ page = "sidepanel"
    /\ recorders[r].stopQueued
    /\ audioChunks' = 0
    /\ LET s0 == Step([NoHandler EXCEPT !.valueBefore = transcriptionValue])
       IN  IF transcriber = "null"
           THEN /\ Commit(r, [s0 EXCEPT
                            !.h = Finished(@, "error", s0.value,
                                           "Error: Transcriber not available"),
                            !.status = "Error: Transcriber not available"])
                /\ SPCleanup(r)
           ELSE /\ Commit(r, [s0 EXCEPT !.h.pc = "SP_main", !.status = "Transcribing...",
                                        !.h.strategies = Append(@, "direct")])
                /\ recorders' = [recorders EXCEPT ![r] = [@ EXCEPT !.stopQueued = FALSE]]
                /\ UNCHANGED <<recording, recordingTimer>>
    /\ UNCHANGED <<page, transcriber, mediaRecorder, pendingGUM, elapsed,
                   recordBtnDisabled, saved, cleanVars, trVars, mdlVars, lrVars, paVars>>

\* processRecording of the side panel after `await transcriber(audioBlob)`, then
\* the rest of onstop
SPMain(r) ==
    /\ handlers[r].pc = "SP_main"
    /\ \E o \in TranscriberCall(transcriber, FALSE) :
         LET s == Logged(Step(handlers[r]), o.ok)
         IN  IF o.kind = "text" /\ o.text # <<>>
             THEN LET value == AppendSentence(s.value, Taken(o))
                      g == saveTranscriptionToHistory(
                             [Globals EXCEPT !.transcriptionValue = value,
                                             !.mediaRecorder = r], TRUE)
                  IN  /\ Commit(r, [s EXCEPT !.h = Finished(@, "complete", value, "Ready"),
                                             !.value = value, !.status = "Ready"])
                      /\ recordBtnDisabled' = FALSE
                      /\ saved' = g.saved
             ELSE LET status == IF o.kind = "throw" THEN "Error: <engine message>"
                                ELSE "Error: No transcription result"
                  IN  Commit(r, [s EXCEPT !.h = Finished(@, "error", s.value, status),
                                          !.status = status])
                  /\ UNCHANGED <<recordBtnDisabled, saved>>
    /\ SPCleanup(r)
    /\ UNCHANGED <<page, transcriber, mediaRecorder, audioChunks, pendingGUM, elapsed,
                   cleanVars, trVars, mdlVars, lrVars, paVars>>

(***************************************************************************)
(* The model selection: changeModel and initializeModel of the three pages. *)
(***************************************************************************)
MaxLoads == 3           \* runs of initializeModel in flight at one time

DefaultModel == "Xenova/whisper-tiny.en"
OtherModel == "Xenova/whisper-small.en"
NonWhisperModel == "a model without 'whisper' in its name"
Models == {DefaultModel, OtherModel}

\* the transcriber a finished load installs: the Whisper function of the page
LoadedKind == IF page = "part000" THEN "local" ELSE "shared"

\* the state after a successful first load
ModelLoaded ==
    /\ selectedModel = (IF transcriber = "pipeline" THEN NonWhisperModel ELSE DefaultModel)
    /\ modelSelect = selectedModel
    /\ engineModel = selectedModel
    /\ loads = <<>>
    /\ rebound = (page # "sidepanel")
    /\ overlapped = FALSE

\* the globals and DOM fields that changeModel and initializeModel touch
ModelGlobals ==
    [transcriber |-> transcriber, engineModel |-> engineModel,
     selectedModel |-> selectedModel, loads |-> loads, statusText |-> statusText,
     recordBtnDisabled |-> recordBtnDisabled]

SetModelGlobals(g) ==
    /\ transcriber' = g.transcriber
    /\ engineModel' = g.engineModel
    /\ selectedModel' = g.selectedModel
    /\ loads' = g.loads
    /\ statusText' = g.statusText
    /\ recordBtnDisabled' = g.recordBtnDisabled

\* a run of initializeModel waiting for the background page; model is read
\* from selectedModel when the load proper begins
NewLoad(startup) == [stage |-> "background", model |-> "none", startup |-> startup]

\* initializeModel up to its first await; choice is modelSelect.value
initializeModel(g, choice) ==
    IF page = "part000"
    THEN [g EXCEPT !.statusText = "Loading model...",
                   !.loads = Append(@, NewLoad(FALSE))]
    ELSE IF g.transcriber # "null" /\ g.selectedModel = choice
         THEN [g EXCEPT !.statusText = "Ready"]
         ELSE [g EXCEPT !.selectedModel = choice,
                        !.recordBtnDisabled = TRUE,
                        !.loads = Append(@, NewLoad(FALSE))]

\* changeModel up to its first await: the popup clears the old engine, the side
\* panel does not
changeModel(g, choice) ==
    IF page = "sidepanel"
    THEN initializeModel([g EXCEPT !.selectedModel = choice], choice)
    ELSE initializeModel([g EXCEPT !.selectedModel = choice,
                                   !.transcriber = "null",
                                   !.engineModel = "none"], choice)

RECURSIVE Changed(_, _, _)
\* the change event runs its listeners one after the other
Changed(g, choice, listeners) ==
    IF listeners = 0 THEN g ELSE Changed(changeModel(g, choice), choice, listeners - 1)

\* s without its k-th element
RemoveAt(s, k) == SubSeq(s, 1, k - 1) \o SubSeq(s, k + 1, Len(s))

\* the page has just been opened: the first run of initializeModel is under way
InitModel ==
    /\ page \in Pages
    /\ transcriber = "null"
    /\ engineModel = "none"
    /\ selectedModel = DefaultModel
    /\ modelSelect = DefaultModel
    /\ loads = <<NewLoad(TRUE)>>
    /\ rebound = FALSE
    /\ overlapped = FALSE
    /\ recordBtnDisabled = TRUE
    /\ statusText = "Loading model..."
    /\ recording = FALSE
    /\ mediaRecorder = 0
    /\ recorders = <<>>
    /\ handlers = <<>>
    /\ audioChunks = 0
    /\ pendingGUM = 0
    /\ elapsed = 30
    /\ recordingTimer = FALSE
    /\ saved = <<>>
    /\ transcriptionValue = <<>>

ModelFrame ==
    UNCHANGED <<page, recording, mediaRecorder, recorders, handlers, audioChunks,
                pendingGUM, elapsed, recordingTimer, saved, transcriptionValue,
                cleanVars, trVars, lrVars, paVars>>

\* the user picks another option of the model select: the change event
SelectModel ==
    /\ \E choice \in Models \ {modelSelect} :
         /\ modelSelect' = choice
         /\ LET g == Changed(ModelGlobals, choice, Listeners)
            IN  /\ Len(g.loads) <= MaxLoads
                /\ SetModelGlobals(g)
                /\ overlapped' = (Len(g.loads) >= 2)
    /\ UNCHANGED rebound
    /\ ModelFrame

\* the messages to the background page are answered (or fail, which is only
\* logged): the load proper begins with the selectedModel of this moment
LoadBegin(k) ==
    /\ loads[k].stage = "background"
    /\ loads' = [loads EXCEPT ![k] = [@ EXCEPT !.stage = "loading", !.model = selectedModel]]
    /\ statusText' = IF page = "part000" THEN statusText ELSE "Loading model..."
    /\ UNCHANGED <<transcriber, engineModel, selectedModel, modelSelect, rebound,
                   overlapped, recordBtnDisabled>>
    /\ ModelFrame

\* the load succeeds: the rest of initializeModel, and of the DOMContentLoaded
\* listener when this is the first load
LoadResolve(k) ==
    /\ loads[k].stage = "loading"
    /\ loads' = RemoveAt(loads, k)
    /\ transcriber' = LoadedKind
    /\ engineModel' = loads[k].model
    /\ statusText' = IF page = "part000" /\ ~loads[k].startup THEN "Model loaded" ELSE "Ready"
    /\ recordBtnDisabled' = IF page = "part000" /\ ~loads[k].startup
                            THEN recordBtnDisabled ELSE FALSE
    /\ rebound' = (rebound \/ (loads[k].startup /\ page # "sidepanel"))
    /\ UNCHANGED <<selectedModel, modelSelect, overlapped>>
    /\ ModelFrame

\* the load fails: the catch of initializeModel rethrows, and the first load's
\* caller disables the record button
LoadReject(k) ==
    /\ loads[k].stage = "loading"
    /\ loads' = RemoveAt(loads, k)
    /\ statusText' = IF page = "sidepanel" /\ loads[k].startup THEN "Error: <load message>"
                     ELSE IF page = "part000" \/ loads[k].startup THEN "Error loading model"
                     ELSE "Error loading model: <load message>"
    /\ recordBtnDisabled' = IF loads[k].startup THEN TRUE ELSE recordBtnDisabled
    /\ UNCHANGED <<transcriber, engineModel, selectedModel, modelSelect, rebound,
                   overlapped>>
    /\ ModelFrame

ControllerIdle ==
    /\ page = "part000"
    /\ transcriber = "local"
    /\ recording = FALSE
    /\ mediaRecorder = 0
    /\ recorders = <<>>
    /\ handlers = <<>>
    /\ audioChunks = 0
    /\ pendingGUM = 0
    /\ elapsed = 30
    /\ recordingTimer = FALSE
    /\ recordBtnDisabled = FALSE
    /\ saved = <<>>
    /\ ModelLoaded

vars == <<cleanVars, domVars, trVars, ctlVars, mdlVars, lrVars, paVars>>

(***************************************************************************)
(* The manual chunk loop of processLongRecording: the decoded recording is *)
(* cut into chunks of CHUNK_SIZE seconds, each copied into a buffer of its *)
(* own.  The numbers are those of the code: startTime, endTime and         *)
(* chunkLength are computed in samples and then multiplied by the sample   *)
(* rate where the buffer is created and where the samples are copied.      *)
(***************************************************************************)
CHUNK_SIZE == 30

samplesPerChunk(rate) == CHUNK_SIZE * rate

\* Math.ceil(totalSamples / samplesPerChunk)
manualNumChunks(total, rate) == CeilDiv(total, samplesPerChunk(rate))

startTime(i, rate) == i * samplesPerChunk(rate)

endTime(i, total, rate) == Min((i + 1) * samplesPerChunk(rate), total)

chunkLength(i, total, rate) == endTime(i, total, rate) - startTime(i, rate)

\* chunkLength < 0.5
chunkTooShort(i, total, rate) == 2 * chunkLength(i, total, rate) < 1

\* Math.floor(chunkLength * audioBuffer.sampleRate), the length of chunkBuffer
chunkBufferFrames(i, total, rate) == chunkLength(i, total, rate) * rate

\* Math.floor(startTime * audioBuffer.sampleRate)
copyStartSample(i, total, rate) == startTime(i, rate) * rate

\* Math.floor(endTime * audioBuffer.sampleRate)
copyEndSample(i, total, rate) == endTime(i, total, rate) * rate

\* lengths of the decoded recording: MaxEdge samples at most from 0 and from
\* the end of the first chunk
MaxEdge == 10

\* audioBuffer.sampleRate: the lowest rate an AudioContext supports, for which
\* the products above stay below 2^31 for recordings of up to two chunks
DecodedSampleRates == {8000}

DecodedLengths(rate) ==
    (1..MaxEdge) \cup ((samplesPerChunk(rate) - MaxEdge)..(samplesPerChunk(rate) + MaxEdge))

ManualChunksIdle ==
    /\ lrSampleRate = 0
    /\ lrTotalSamples = 0
    /\ lrPc = "idle"
    /\ lrI = 0
    /\ lrLog = <<>>

\* decodeAudioData has resolved and the mono copy is made
InitManualChunks ==
    /\ lrSampleRate \in DecodedSampleRates
    /\ lrTotalSamples \in DecodedLengths(lrSampleRate)
    /\ lrPc = "loop"
    /\ lrI = 0
    /\ lrLog = <<>>

\* one iteration of the loop: the chunk is skipped, or createBuffer throws
\* (the catch (audioError) ends the loop), or the chunk is copied:
\* chunkData[j] = channelData[startSample + j] for j < endSample - startSample
ManualChunk ==
    /\ lrPc = "loop"
    /\ lrI < manualNumChunks(lrTotalSamples, lrSampleRate)
    /\ IF chunkTooShort(lrI, lrTotalSamples, lrSampleRate)
       THEN /\ lrI' = lrI + 1
            /\ UNCHANGED <<lrPc, lrLog>>
       ELSE \/ /\ lrPc' = "done"
               /\ UNCHANGED <<lrI, lrLog>>
            \/ /\ lrLog' = Append(lrLog,
                     [i |-> lrI,
                      samples |-> chunkLength(lrI, lrTotalSamples, lrSampleRate),
                      frames |-> chunkBufferFrames(lrI, lrTotalSamples, lrSampleRate),
                      readFrom |-> copyStartSample(lrI, lrTotalSamples, lrSampleRate),
                      readTo |-> copyEndSample(lrI, lrTotalSamples, lrSampleRate)])
               /\ lrI' = lrI + 1
               /\ UNCHANGED lrPc
    /\ UNCHANGED <<lrSampleRate, lrTotalSamples, cleanVars, domVars, trVars, ctlVars, mdlVars, paVars>>

\* after the loop: audioContext.close() and the final transcript
ManualLoopEnd ==
    /\ lrPc = "loop"
    /\ lrI >= manualNumChunks(lrTotalSamples, lrSampleRate)
    /\ lrPc' = "done"
    /\ UNCHANGED <<lrSampleRate, lrTotalSamples, lrI, lrLog, cleanVars, domVars, trVars,
                   ctlVars, mdlVars, paVars>>

(***************************************************************************)
(* The word loop of the windowed transcriber on its own: the words of the  *)
(* windows are processed one after the other.  The word offered next is a  *)
(* word not seen before, or the oldest or the newest entry of lastWords.   *)
(***************************************************************************)
MaxWords == 23      \* words processed in one behaviour

\* the word made of n letters
Word(n) == [k \in 1..n |-> "a"]

RECURSIVE LongestWord(_)
LongestWord(lw) ==
    IF lw = <<>> THEN 0 ELSE Max(Len(Head(lw)), LongestWord(Tail(lw)))

NextWords(lw) ==
    {Word(LongestWord(lw) + 1)}
        \cup (IF lw = <<>> THEN {} ELSE {lw[1], lw[Len(lw)]})

InitLastWords ==
    /\ trLen = 0
    /\ trOpts = [chunk_length_s |-> NoOption, stride_length_s |-> NoOption]
    /\ trPc = "words"
    /\ trI = 0
    /\ fullTranscription = <<>>
    /\ lastWords = <<>>
    /\ trResult = NoResult
    /\ trLog = <<>>

\* one iteration of `for (const word of words)`
WordProcessed ==
    /\ trPc = "words"
    /\ trI < MaxWords
    /\ \E word \in NextWords(lastWords) :
         lastWords' = FilterWords(<<word>>, lastWords, <<>>).last
    /\ trI' = trI + 1
    /\ UNCHANGED <<trLen, trOpts, trPc, fullTranscription, trResult, trLog, domVars, cleanVars, ctlVars,
                   mdlVars, lrVars, paVars>>

(***************************************************************************)
(* processAudioBlob: the decoded audio is reduced to one channel at 16 kHz.*)
(* A channel is a sequence of samples; sample i of the code is element     *)
(* i + 1 of the sequence.                                                  *)
(***************************************************************************)
MaxSamples == 7     \* samples per channel of the decoded audio

\* a length rounded up instead of down
newLengthRoundedUp(n, rate) == CeilDiv(n * SampleRate, rate)

\* Math.floor(audioData.length / ratio) with ratio = sampleRate / 16000
newLength(n, rate) == (n * SampleRate) \div rate

\* Math.floor(i * ratio)
resampleIndex(i, rate) == (i * rate) \div SampleRate

\* the resampling loop: finalAudioData[i] = audioData[Math.floor(i * ratio)];
\* an index beyond the data reads undefined, stored as NaN
resample(data, rate) ==
    [k \in 1..newLength(Len(data), rate) |->
        IF resampleIndex(k - 1, rate) + 1 \in DOMAIN data
        THEN data[resampleIndex(k - 1, rate) + 1]
        ELSE "NaN"]

\* the body of processAudioBlob after decodeAudioData: channel 0, resampled
\* unless the buffer is at 16 kHz already
processAudioBlob(buffer) ==
    LET audioData == buffer.channels[1]
    IN  IF buffer.sampleRate # SampleRate THEN resample(audioData, buffer.sampleRate)
        ELSE audioData

\* audioBuffer.sampleRate when the context does not decode at 16 kHz
NativeSampleRates == {8000, 16000, 44100, 48000}

\* the left channel is a ramp, so that a sample tells its index; the right
\* channel, if any, is the left one, the left one shifted, or silence
LeftChannel(n) == [k \in 1..n |-> 2 * k]

RightChannels(n) ==
    {LeftChannel(n), [k \in 1..n |-> 2 * k + 4], [k \in 1..n |-> 0]}

DecodedBuffers ==
    {[sampleRate |-> r, channels |-> <<LeftChannel(n)>>] :
        r \in NativeSampleRates, n \in 0..MaxSamples}
    \cup UNION {{[sampleRate |-> r, channels |-> <<LeftChannel(n), right>>] :
                    right \in RightChannels(n)} :
                 r \in NativeSampleRates, n \in 0..MaxSamples}

ProcessAudioIdle ==
    /\ audioBuffer = [sampleRate |-> SampleRate, channels |-> <<<<>>>>]
    /\ finalAudioData = <<>>
    /\ paPc = "idle"

\* decodeAudioData has resolved
InitProcessAudio ==
    /\ audioBuffer \in DecodedBuffers
    /\ finalAudioData = <<>>
    /\ paPc = "decoded"

ProcessAudio ==
    /\ paPc = "decoded"
    /\ finalAudioData' = processAudioBlob(audioBuffer)
    /\ paPc' = "done"
    /\ UNCHANGED <<audioBuffer, cleanVars, domVars, trVars, ctlVars, mdlVars, lrVars>>

CleanIdle ==
    /\ cleanIn = <<>>
    /\ cleanImpl = "local"
    /\ cleanOut = <<>>
    /\ cleanOut2 = <<>>
    /\ cleanStage = 0

TranscriberIdle ==
    /\ trLen = 0
    /\ trOpts = [chunk_length_s |-> NoOption, stride_length_s |-> NoOption]
    /\ trPc = "idle"
    /\ trI = 0
    /\ fullTranscription = <<>>
    /\ lastWords = <<>>
    /\ trResult = NoResult
    /\ trLog = <<>>

DomIdle ==
    /\ transcriptionValue = <<>>
    /\ statusText = "Ready"

NextTranscriber == TrBegin \/ TrChunk \/ TrLoopEnd \/ TrSingle

InitSpecTranscriber ==
    InitTranscriber /\ CleanIdle /\ DomIdle /\ ControllerIdle /\ ManualChunksIdle /\ ProcessAudioIdle

SpecTranscriber == InitSpecTranscriber /\ [][NextTranscriber]_vars


NextClean == CleanOnce \/ CleanTwice

InitSpecClean ==
    InitClean /\ TranscriberIdle /\ DomIdle /\ ControllerIdle /\ ManualChunksIdle /\ ProcessAudioIdle

SpecClean == InitSpecClean /\ [][NextClean]_vars

Next ==
    \/ Click
    \/ UserTypes
    \/ GumResolve
    \/ GumReject
    \/ \E r \in Recorders : DataAvailable(r)
    \/ \E r \in Recorders : MaxTimerFires(r)
    \/ \E r \in Recorders : StopTask(r)
    \/ \E r \in Recorders : PRArrayBuffer(r)
    \/ \E r \in Recorders : PRMain(r)
    \/ \E r \in Recorders : PRFallback(r)
    \/ \E r \in Recorders : LRDirect(r)
    \/ \E r \in Recorders : LRMeta(r)
    \/ \E r \in Recorders : LRFull(r)
    \/ \E r \in Recorders : LRDecode(r)
    \/ \E r \in Recorders : LRChunk(r)
    \/ \E r \in Recorders : SPStopTask(r)
    \/ \E r \in Recorders : SPMain(r)

Init == InitController /\ ModelLoaded /\ CleanIdle /\ TranscriberIdle /\ ManualChunksIdle /\ ProcessAudioIdle

Spec == Init /\ [][Next]_vars

NextModel ==
    \/ SelectModel
    \/ \E k \in DOMAIN loads : LoadBegin(k)
    \/ \E k \in DOMAIN loads : LoadResolve(k)
    \/ \E k \in DOMAIN loads : LoadReject(k)
    \/ Click
    \/ GumResolve
    \/ GumReject

InitSpecModel == InitModel /\ CleanIdle /\ TranscriberIdle /\ ManualChunksIdle /\ ProcessAudioIdle

SpecModel == InitSpecModel /\ [][NextModel]_vars

NextManualChunks == ManualChunk \/ ManualLoopEnd

InitSpecManualChunks ==
    InitManualChunks /\ CleanIdle /\ TranscriberIdle /\ DomIdle /\ ControllerIdle
        /\ ProcessAudioIdle

SpecManualChunks == InitSpecManualChunks /\ [][NextManualChunks]_vars

InitSpecLastWords ==
    InitLastWords /\ CleanIdle /\ DomIdle /\ ControllerIdle /\ ManualChunksIdle /\ ProcessAudioIdle

SpecLastWords == InitSpecLastWords /\ [][WordProcessed]_vars

InitSpecProcessAudio ==
    InitProcessAudio /\ CleanIdle /\ TranscriberIdle /\ DomIdle /\ ControllerIdle
        /\ ManualChunksIdle

SpecProcessAudio == InitSpecProcessAudio /\ [][ProcessAudio]_vars

(***************************************************************************)
(* Claims about the windowed transcriber.                                  *)
(***************************************************************************)
\* the words of a text, none for the empty text
WordsOf(text) == IF text = <<>> THEN <<>> ELSE SplitWords(text, <<>>)

\* no word occurs more than MaxRepetitions times in any LastWordsCap consecutive words
RepeatsCapped(words) ==
    \A i \in DOMAIN words :
      LET span == SubSeq(words, i, Min(i + LastWordsCap - 1, Len(words)))
      IN  \A k \in DOMAIN span : repetitionCount(span, span[k]) <= MaxRepetitions

WindowFailed == \E k \in DOMAIN trLog : trLog[k].outcome = "throw"

\* C1: merging two or more windows, a word already held 3 times in lastWords is
\* suppressed, so the merged transcript never holds a token more than 3 times
\* within any 20-word rolling span
C1_RepetitionCapped ==
    (trPc = "done" /\ IsLongAudio(trLen) /\ trResult.kind = "text" /\ Len(trLog) >= 2)
        => RepeatsCapped(WordsOf(fullTranscription))

\* C2: in the windowed loop over N >= 2 windows a window whose processor or
\* generate call throws contributes no text and the other windows are still
\* processed: the call returns a text and every window was visited
C2_WindowFailureIsolated ==
    (trPc = "done" /\ IsLongAudio(trLen) /\ numChunks(trLen, trOpts) >= 2 /\ WindowFailed)
        => (trResult.kind = "text" /\ Len(trLog) = numChunks(trLen, trOpts))

\* C9: cleanWhisperOutput is idempotent: cleaning a cleaned text changes nothing
C9_Idempotent == cleanStage = 2 => cleanOut2 = cleanOut

(***************************************************************************)
(* Claims about the capture controller.                                    *)
(***************************************************************************)
\* C3: processRecording runs its strategies in order: processLongRecording is
\* invoked as the last resort only after a temporary pipeline was constructed
\* and run on the capture
C3_FallbackOrder ==
    \A r \in Recorders :
        handlers[r].ctx = "lastResort" =>
            \E k \in DOMAIN handlers[r].strategies : handlers[r].strategies[k] = "temporary"

\* C4: after a successful transcription the visible transcript still begins
\* with the content that was visible before the capture: nothing is overwritten
C4_TranscriptAppended ==
    \A r \in Recorders :
        (handlers[r].pc = "done" /\ handlers[r].outcome = "complete" /\ handlers[r].someOk)
            => handlers[r].kept

\* C5: at most one transcription is in flight at any time
C5_OneTranscription == Cardinality({r \in Recorders : HandlerActive(handlers[r])}) <= 1

\* C6: when every transcription path of a capture failed, the transcript or the
\* status line shows the failure once the capture's handler has returned
C6_FailureLeavesTrace ==
    \A r \in Recorders :
        (handlers[r].pc = "done" /\ ~handlers[r].someOk) => handlers[r].traced

\* nothing of any capture is under way
Quiet ==
    /\ pendingGUM = 0
    /\ \A r \in Recorders :
         /\ recorders[r].state = "inactive"
         /\ ~recorders[r].stopQueued
         /\ ~HandlerActive(handlers[r])

\* C7: after a transcription that ended in failure the controller is Idle again:
\* recording is false and the record button accepts the next start
C7_IdleAfterFailure ==
    (Quiet /\ \E r \in Recorders : handlers[r].pc = "done" /\ handlers[r].outcome = "error")
        => (~recording /\ ~recordBtnDisabled)

ControllerIsIdle == ~recording

\* MediaRecorder.stop() has been issued and the stop event is not delivered yet
ControllerIsStopping ==
    recording /\ mediaRecorder # 0 /\ recorders[mediaRecorder].stopQueued

\* C8: stopRecording called while the controller is Idle or Stopping changes
\* nothing: not the recording flag, the status text or the timers, and it sends
\* no message
C8_StopRecordingNoOp ==
    (page # "sidepanel" /\ (ControllerIsIdle \/ ControllerIsStopping))
        => stopRecording(Globals) = Globals

\* C10: in the manual chunk loop the accumulated transcript is the single-space
\* join, in chunk order, of the cleaned texts of the chunks whose inference
\* succeeded: a failed chunk contributes nothing
C10_FailedChunkContributesNothing ==
    \A r \in Recorders :
        handlers[r].pc = "LR_chunk" => handlers[r].fullTranscription = handlers[r].okTexts


\* every capture that was started has been stopped and its transcription has
\* returned: the controller is Idle again
BackToIdle ==
    /\ ~recording
    /\ pendingGUM = 0
    /\ recorders # <<>>
    /\ \A r \in Recorders : ~recorders[r].stopQueued /\ ~HandlerActive(handlers[r])
    /\ \E r \in Recorders : handlers[r].pc = "done"

\* C11: once the controller is Idle again after a stop, every microphone stream
\* acquired by a start has its tracks stopped and no MediaRecorder is still in
\* state 'recording'
C11_DeviceReleased ==
    BackToIdle =>
        \A r \in Recorders : ~recorders[r].tracksLive /\ recorders[r].state # "recording"


(***************************************************************************)
(* Claims about the model selection.                                       *)
(***************************************************************************)
\* C12: when the user has switched the model selection and every load has
\* completed, the engine behind transcriber is the one of the selected model
C12_EngineReplaced ==
    (loads = <<>> /\ transcriber # "null") => engineModel = modelSelect

\* a click on the record button that asks for a start while no engine is loaded
StartWithoutEngine == Click /\ ~recording /\ transcriber = "null"

\* C19: a start while transcriber is null is refused: recording stays false, no
\* microphone is requested and the status reports that the model is not loaded;
\* popup.js and the side panel keep the record button disabled while
\* transcriber is null, so there the start cannot even be asked for
C19_StartRefused ==
    /\ []((transcriber = "null" /\ page # "part000") => recordBtnDisabled)
    /\ [][StartWithoutEngine =>
             (/\ recording' = FALSE
              /\ pendingGUM' = pendingGUM
              /\ recorders' = recorders
              /\ statusText' = "Model not loaded")]_vars

\* a start was refused: the status says so while no engine is loaded
C19_Witness ==
    statusText = "Model not loaded" /\ transcriber = "null" /\ ~recording /\ pendingGUM = 0


(***************************************************************************)
(* Claims about persistence.                                               *)
(***************************************************************************)
\* C13: every saveTranscription message sent for a capture is sent after that
\* capture's transcription has finished, and carries the model that was used
C13_SavedAfterTranscription ==
    \A k \in DOMAIN saved : saved[k].transcribed /\ saved[k].model = engineModel


(***************************************************************************)
(* Claims about the windows of the Whisper transcriber.                    *)
(***************************************************************************)
\* the windows visited so far are those of a wl-second window with ov seconds
\* of overlap: window k starts (wl - ov) seconds after window k - 1 and is wl
\* seconds long, clipped at the end of the buffer
WindowsOfTier(wl, ov) ==
    \A k \in DOMAIN trLog :
      /\ trLog[k].startSample = (k - 1) * (wl - ov) * SampleRate
      /\ trLog[k].endSample = Min(trLog[k].startSample + wl * SampleRate, trLen)

\* C14: for a buffer with 25 s < duration <= 120 s the windows are 20 s long
\* with 5 s overlap, whatever chunk options the caller passed
C14_MidTierWindows ==
    (25 * SampleRate < trLen /\ trLen <= 120 * SampleRate) => WindowsOfTier(20, 5)

\* C15: for a buffer longer than 120 s the windows are 25 s long with 3 s
\* overlap whatever chunk options the caller passed, window i starts at sample
\* i x 22 x 16000, and the start samples strictly increase
C15_LongTierWindows ==
    trLen > 120 * SampleRate =>
        /\ WindowsOfTier(25, 3)
        /\ \A k \in DOMAIN trLog :
              k > 1 => trLog[k].startSample > trLog[k - 1].startSample

C15_Witness ==
    /\ trPc = "done"
    /\ trLen = 150 * SampleRate
    /\ trOpts.chunk_length_s = 30
    /\ trResult.kind = "text"
    /\ Len(trLog) = 7

\* C16: for a buffer of at most 25 s the windowed loop is never entered and
\* the transcriber makes exactly one inference call, on one window from
\* sample 0 to the end of the buffer (none when the audio could not be decoded)
C16_SingleWindow ==
    (trPc # "idle" /\ trLen <= 25 * SampleRate) =>
        /\ trPc # "loop"
        /\ trPc \in {"called", "single"} => trLog = <<>>
        /\ trPc = "done" =>
              \/ trLog = <<>> /\ trResult.kind = "throw"
              \/ /\ Len(trLog) = 1
                 /\ trLog[1].startSample = 0
                 /\ trLog[1].endSample = trLen

C16_Witness ==
    /\ trPc = "done"
    /\ trLen = 25 * SampleRate
    /\ trResult.kind = "text"
    /\ Len(trLog) = 1
    /\ trLog[1].endSample = 400000

SingleWindowReturned ==
    trPc = "done" /\ trLen <= 25 * SampleRate /\ trResult.kind = "text"

\* C17 as stated: in the single-window case the returned text is exactly the
\* cleaned engine output
C17_ExactlyCleaned ==
    SingleWindowReturned => trResult.text = trLog[1].cleaned

\* C17: in the single-window case no repetition filtering is applied: the
\* returned text is the cleaned engine output with every repeated word kept,
\* or '[Empty transcription]' when the cleaned output is empty
C17_CleanedOrPlaceholder ==
    SingleWindowReturned =>
        /\ trLog[1].cleaned # <<>> => trResult.text = trLog[1].cleaned
        /\ trLog[1].cleaned = <<>> => trResult.text = EmptyTranscription
        /\ fullTranscription = <<>> /\ lastWords = <<>>

C17_Witness ==
    /\ SingleWindowReturned
    /\ trLog[1].cleaned = Raw_Forty4
    /\ repetitionCount(WordsOf(trResult.text), <<"f", "o", "r", "t", "y">>) = 4


(***************************************************************************)
(* Claims about the end of a transcription and the recording ceiling.      *)
(***************************************************************************)
\* the continuation of the stop handler of recorder r after one of its awaits
HandlerStep(r) ==
    \/ PRArrayBuffer(r)
    \/ PRMain(r)
    \/ PRFallback(r)
    \/ LRDirect(r)
    \/ LRMeta(r)
    \/ LRFull(r)
    \/ LRDecode(r)
    \/ LRChunk(r)
    \/ SPMain(r)

\* C18: every transcription that has started ends, in success or in failure:
\* a stop handler that has not yet set its final status is never left waiting
\* for an answer that cannot come, its next step can always be taken
C18_TranscriptionEnds ==
    \A r \in Recorders : HandlerActive(handlers[r]) => ENABLED HandlerStep(r)


\* the 10 minute timer of recorder r fires while r is still recording
CeilingReached(r) ==
    /\ recorders[r].state = "recording"
    /\ recorders[r].maxTimer = "armed"
    /\ recorders'[r].maxTimer = "fired"

\* C20: the recording ceiling is enforced: when the 10 minute timer of a
\* capture fires while the capture is still recording, stopRecording stops that
\* capture, whose stop listener (the transcription) is then queued
C20_CeilingEnforced ==
    [][\A r \in Recorders :
         CeilingReached(r) =>
             (recorders'[r].state = "inactive" /\ recorders'[r].stopQueued)]_vars


(***************************************************************************)
(* Claims about the microphone and the click listeners.                    *)
(***************************************************************************)
\* this step is the rejection of a pending getUserMedia request
MicrophoneFails == pendingGUM' = pendingGUM - 1 /\ recorders' = recorders

MicrophoneErrorStatus == {"Microphone access denied", "Error: <getUserMedia message>"}

\* C21: when acquiring the microphone fails the attempt is aborted and the
\* controller is left idle and retryable: recording is false, no recorder is
\* recording, an error status is shown and the record button accepts a click
C21_MicFailureLeavesIdle ==
    [][MicrophoneFails =>
          /\ recording' = FALSE
          /\ \A r \in Recorders : recorders'[r].state # "recording"
          /\ statusText' \in MicrophoneErrorStatus
          /\ ~recordBtnDisabled']_vars


(***************************************************************************)
(* Claims about the sanitizer as a function.                               *)
(***************************************************************************)
\* the characters of the input texts
InputChars == UNION {{p[k] : k \in DOMAIN p} : p \in Pieces}

\* C22: cleanWhisperOutput is total: for every string and for an empty or null
\* input it returns a string (characters of the input or the single space that
\* replaces a run of whitespace, never the null value), and an empty or null
\* input yields the empty string
C22_CleanIsTotal ==
    cleanStage >= 1 =>
        /\ cleanOut # NullText
        /\ \A k \in DOMAIN cleanOut : cleanOut[k] \in InputChars \cup {" "}
        /\ cleanIn \in {NullText, <<>>} => cleanOut = <<>>

C22_Witness ==
    cleanStage = 1 /\ cleanImpl = "shared" /\ cleanIn = NullText /\ cleanOut = <<>>

\* the six control tokens of the model
ControlTokens ==
    {Tok_startoftranscript, Tok_endoftranscript, Tok_endoftext,
     Tok_notimestamps, Tok_transcribe, Tok_translate}

\* s holds a timestamp marker: <| digits . digits |>
ContainsTimestampMarker(s) ==
    \E k \in DOMAIN s, d \in DOMAIN s, l \in DOMAIN s :
        /\ k + 2 < d /\ d + 1 < l - 1
        /\ s[k] = "<" /\ s[k + 1] = "|"
        /\ \A n \in (k + 2)..(d - 1) : s[n] \in Digits
        /\ s[d] = "."
        /\ \A n \in (d + 1)..(l - 2) : s[n] \in Digits
        /\ s[l - 1] = "|" /\ s[l] = ">"

\* C34: for every input string the output of cleanWhisperOutput contains no
\* control token of the model (start of transcript, end of transcript, end of
\* text, no timestamps, transcribe, translate) and no timestamp marker of the
\* form <|0.00|>
C34_NoControlToken ==
    cleanStage >= 1 =>
        /\ \A tok \in ControlTokens : ~Contains(cleanOut, tok)
        /\ ~ContainsTimestampMarker(cleanOut)

\* C35: the output of cleanWhisperOutput contains no bracketed tag: no "["
\* is followed, anywhere after it and whatever stands between, by a "]"
C35_NoBracketedTag ==
    cleanStage >= 1 =>
        ~\E i \in DOMAIN cleanOut, j \in DOMAIN cleanOut :
            i < j /\ cleanOut[i] = "[" /\ cleanOut[j] = "]"

\* C36: the output of cleanWhisperOutput is in normal form: no whitespace at
\* either end, no two whitespace characters in a row, and no punctuation
\* character of . , ; : ! ? at either end
C36_NormalForm ==
    (cleanStage >= 1 /\ cleanOut # <<>>) =>
        /\ ~IsSpaceChar(cleanOut[1])
        /\ ~IsSpaceChar(cleanOut[Len(cleanOut)])
        /\ \A k \in 1..(Len(cleanOut) - 1) :
              ~(IsSpaceChar(cleanOut[k]) /\ IsSpaceChar(cleanOut[k + 1]))
        /\ ~IsPunctChar(cleanOut[1])
        /\ ~IsPunctChar(cleanOut[Len(cleanOut)])


\* C23: after initialization one click on the record button invokes
\* toggleRecording exactly once: the step of a click is the step of one call of
\* toggleRecording, one start or one stop
C23_OneToggle == [][Click => SetGlobals(toggleRecording(Globals))]_vars


\* the recorders that are in state 'recording'
LiveRecorders == {r \in Recorders : recorders[r].state = "recording"}

\* C24: at most one MediaRecorder created by the controller is in state
\* 'recording' at any time, also when toggleRecording runs overlap while
\* getUserMedia is pending
C24_OneLiveRecorder == Cardinality(LiveRecorders) <= 1


(***************************************************************************)
(* Claims about the manual chunk loop of processLongRecording.             *)
(***************************************************************************)
\* C25: every chunk handed to inference is a contiguous slice of the decoded
\* buffer: chunk i holds exactly the source samples from i x samplesPerChunk to
\* min((i + 1) x samplesPerChunk, totalSamples), its buffer has that many
\* frames and no sample is read from outside the decoded buffer
C25_ChunkIsSlice ==
    \A k \in DOMAIN lrLog :
      LET c == lrLog[k]
          from == c.i * CHUNK_SIZE * lrSampleRate
          to == Min((c.i + 1) * CHUNK_SIZE * lrSampleRate, lrTotalSamples)
      IN  /\ c.readFrom = from
          /\ c.readTo = to
          /\ c.frames = to - from
          /\ c.readTo <= lrTotalSamples

\* C28: no window shorter than 0.5 s of audio is sent to inference, neither by
\* the windowed loop of the transcriber nor by the manual chunk loop: a chunk
\* of fewer than 0.5 s x sampleRate samples is skipped
C28_NoShortWindow ==
    /\ \A k \in DOMAIN lrLog : 2 * lrLog[k].samples >= lrSampleRate
    /\ \A k \in DOMAIN trLog :
          2 * (trLog[k].endSample - trLog[k].startSample) >= SampleRate


(***************************************************************************)
(* Claims about the transcript after a transcription.                      *)
(***************************************************************************)
\* every stop listener that was started has set its final status
AllTranscriptionsFinished ==
    /\ \E r \in Recorders : handlers[r].pc = "done"
    /\ \A r \in Recorders : ~HandlerActive(handlers[r]) /\ ~recorders[r].stopQueued

\* C26: once a transcription has finished, in success or in failure, the
\* visible transcript does not contain the progress marker ' [transcribing...]'
C26_NoProgressMarkerLeft ==
    AllTranscriptionsFinished => ~Contains(transcriptionValue, ProgressMarker)


(***************************************************************************)
(* Claims about overlapping model switches.                                *)
(***************************************************************************)
\* C27: when model switches overlap, a changeModel starting while an earlier
\* load is still in flight, then once no load is in flight the engine handles
\* belong to the last selected model, whatever the order in which the loads
\* complete
C27_LastSelectionWins ==
    (overlapped /\ loads = <<>> /\ transcriber # "null") => engineModel = modelSelect


(***************************************************************************)
(* Claims about the number and the coverage of the transcriber's windows.  *)
(***************************************************************************)
\* the windowed loop has run to its end and the call returned its text
WindowedLoopCompleted == trPc = "done" /\ trLen > 25 * SampleRate /\ trResult.kind = "text"

\* n = ceil((total - window) / (window - stride)) + 1: n - 1 is the least
\* integer not below the quotient
IsWindowCount(n, total, window, stride) ==
    /\ (n - 1) * (window - stride) >= total - window
    /\ (n - 2) * (window - stride) < total - window

\* C29: for every buffer longer than 25 s and every tier or caller-supplied
\* window/stride pair the number of windows processed is
\* ceil((totalSamples - windowSizeSamples) / (windowSizeSamples - strideSamples)) + 1,
\* it is at least 1, and every generated window is non-empty with
\* 0 <= startSample < endSample <= totalSamples
C29_WindowCount ==
    /\ WindowedLoopCompleted =>
          /\ IsWindowCount(Len(trLog), trLen, adjustedChunkSize(trLen, trOpts),
                           adjustedStrideSize(trLen, trOpts))
          /\ Len(trLog) >= 1
    /\ trLen > 25 * SampleRate =>
          \A k \in DOMAIN trLog :
            /\ 0 <= trLog[k].startSample
            /\ trLog[k].startSample < trLog[k].endSample
            /\ trLog[k].endSample <= trLen

C29_Witness ==
    /\ WindowedLoopCompleted
    /\ trLen = 36 * SampleRate
    /\ trOpts.chunk_length_s = NoOption
    /\ Len(trLog) = 3

\* C30: the windows of the transcriber cover the whole buffer: the first starts
\* at sample 0, each window except the last has the full window length and
\* shares exactly strideSamples samples with its successor, and the last window
\* ends exactly at totalSamples, so every sample lies in at least one window
C30_WindowsCover ==
    WindowedLoopCompleted =>
        /\ trLog[1].startSample = 0
        /\ trLog[Len(trLog)].endSample = trLen
        /\ \A k \in 1..(Len(trLog) - 1) :
              /\ trLog[k].endSample - trLog[k].startSample
                    = adjustedChunkSize(trLen, trOpts)
              /\ trLog[k].startSample < trLog[k + 1].startSample
              /\ trLog[k].endSample - trLog[k + 1].startSample
                    = adjustedStrideSize(trLen, trOpts)
              /\ trLog[k].endSample <= trLog[k + 1].endSample

C30_Witness ==
    /\ WindowedLoopCompleted
    /\ trLen = 120 * SampleRate + 1
    /\ Len(trLog) = 6
    /\ trLog[6].endSample - trLog[6].startSample < 25 * SampleRate


(***************************************************************************)
(* Claims about the set of recent words.                                   *)
(***************************************************************************)
\* C31: lastWords never holds more than 20 entries after a word has been
\* processed, and when an insertion would exceed 20 the entry evicted is the
\* one inserted earliest: the others stay, in their order, before the new word
C31_RecentWordsBounded ==
    /\ [](Len(lastWords) <= 20)
    /\ [][(Len(lastWords) = 20 /\ lastWords' # lastWords) =>
             /\ Len(lastWords') = 20
             /\ SubSeq(lastWords', 1, 19) = Tail(lastWords)
             /\ \A k \in DOMAIN lastWords : lastWords[k] # lastWords'[20]]_vars

C31_Witness ==
    /\ trPc = "words"
    /\ Len(lastWords) = 20
    /\ lastWords[1] = Word(3)
    /\ lastWords[20] = Word(22)


(***************************************************************************)
(* Claims about the decoded audio handed to the engine.                    *)
(***************************************************************************)
\* sample i of the buffer given to the engine comes from index
\* Math.floor(i * ratio) of the decoded channels
AverageOfChannels(buffer, k) ==
    LET idx == IF buffer.sampleRate # SampleRate
               THEN resampleIndex(k - 1, buffer.sampleRate) + 1
               ELSE k
    IN  (buffer.channels[1][idx] + buffer.channels[2][idx]) \div 2

\* C32: when the decoded audio has more than one channel, the sample buffer
\* given to the engine is the per-sample average of the channels, not one
\* channel alone
C32_ChannelsAveraged ==
    (paPc = "done" /\ Len(audioBuffer.channels) > 1) =>
        \A k \in DOMAIN finalAudioData :
            finalAudioData[k] = AverageOfChannels(audioBuffer, k)

\* C33: at a native rate R other than 16000 a channel of N samples is
\* resampled to floor(N * 16000 / R) samples, output sample i is input sample
\* floor(i * R / 16000), an index within [0, N); for R = 48000 the output
\* has floor(N / 3) samples
C33_Resampling ==
    (paPc = "done" /\ audioBuffer.sampleRate # 16000) =>
        LET N == Len(audioBuffer.channels[1])
            R == audioBuffer.sampleRate
            L == Len(finalAudioData)
        IN  /\ L * R <= N * 16000
            /\ N * 16000 < (L + 1) * R
            /\ R = 48000 => L = N \div 3
            /\ \A i \in 0..(L - 1) :
                  \E j \in 0..(N - 1) :
                      /\ j * 16000 <= i * R
                      /\ i * R < (j + 1) * 16000
                      /\ finalAudioData[i + 1] = audioBuffer.channels[1][j + 1]

C33_Witness ==
    /\ paPc = "done"
    /\ audioBuffer.sampleRate = 48000
    /\ Len(audioBuffer.channels[1]) = 7
    /\ finalAudioData = <<2, 8>>


(***************************************************************************)
(* Claims about the merged transcript of the windows.                      *)
(***************************************************************************)
\* the words of the windows' cleaned texts, in window order
RECURSIVE WindowWords(_)
WindowWords(log) ==
    IF log = <<>> THEN <<>>
    ELSE WordsOf(Head(log).cleaned) \o WindowWords(Tail(log))

\* a is b with some of its elements left out
RECURSIVE IsSubsequence(_, _)
IsSubsequence(a, b) ==
    IF a = <<>> THEN TRUE
    ELSE IF b = <<>> THEN FALSE
    ELSE IF Head(a) = Head(b) THEN IsSubsequence(Tail(a), Tail(b))
    ELSE IsSubsequence(a, Tail(b))

\* C37: the merged transcript of a windowed transcription never holds two
\* spaces in a row and never starts or ends with a space: its words are joined
\* by single spaces, within a window and from one window to the next, also
\* when a window yields an empty text
C37_SingleSpaces ==
    /\ fullTranscription # <<>> =>
          /\ fullTranscription[1] # " "
          /\ fullTranscription[Len(fullTranscription)] # " "
    /\ \A k \in 1..(Len(fullTranscription) - 1) :
          ~(fullTranscription[k] = " " /\ fullTranscription[k + 1] = " ")
    /\ \A k \in DOMAIN fullTranscription : ~IsSpaceChar(fullTranscription[k]) \/ fullTranscription[k] = " "
    /\ WindowedLoopCompleted => trResult.text = OrEmptyTranscription(fullTranscription)

C37_Witness ==
    /\ WindowedLoopCompleted
    /\ Len(trLog) = 3
    /\ trLog[1].cleaned # <<>>
    /\ trLog[2].cleaned = <<>>
    /\ trLog[3].cleaned # <<>>
    /\ trResult.text = trLog[1].cleaned \o <<" ">> \o trLog[3].cleaned

\* C38: the repetition filter only removes words: once the windows are merged,
\* the words of the merged transcript are a subsequence of the words of the
\* windows' cleaned texts taken in window order; no word is invented,
\* duplicated or reordered
C38_OnlyRemoves ==
    WindowedLoopCompleted =>
        IsSubsequence(WordsOf(fullTranscription), WindowWords(trLog))

C38_Witness ==
    /\ WindowedLoopCompleted
    /\ Len(trLog) = 2
    /\ trLog[1].cleaned # trLog[2].cleaned
    /\ trLog[1].cleaned # <<>>
    /\ trLog[2].cleaned # <<>>
    /\ WordsOf(fullTranscription) = WindowWords(trLog)


(***************************************************************************)
(* Claims about the timers of a capture.                                   *)
(***************************************************************************)
\* C39: the timers armed for one capture act on that capture only: a step in
\* which the 10 minute timer of a capture fires stops no other capture, so a
\* later capture is never stopped by the timer of an earlier one
C39_TimersOwnCapture ==
    [][\A r \in Recorders :
         (recorders[r].maxTimer = "armed" /\ recorders'[r].maxTimer = "fired") =>
             \A m \in Recorders :
                 (recorders[m].state = "recording" /\ recorders'[m].state = "inactive")
                     => m = r]_vars

=============================================================================
